---- MODULE Spec2Model ----
(***************************************************************************)
(* Score post-LLM pipeline: curve computation, compatibility checking,     *)
(* grade assignment and merging, modelled from the pipeline functions      *)
(* (validateReportJSON .. mergeIntoCurvedReport) and the synthetic data    *)
(* generator.                                                              *)
(*                                                                         *)
(* Numbers.  A score or threshold x in [0,1] is held as the integer        *)
(* 1000 * Grain * x, so that a score may lie between two thousandths       *)
(* while a computed threshold, rounded to three decimals, is a multiple    *)
(* of Grain.  The arithmetic of computeStdDevThresholds is done exactly    *)
(* over the reals (floor of an expression with a square root), not in      *)
(* IEEE-754 doubles.                                                       *)
(*                                                                         *)
(* Strings.  A problem id is the tuple of its decimal digits, so that      *)
(* slice(0, -1) is SubSeq.  A reason message is the record of the parts    *)
(* its template string is built from.                                      *)
(***************************************************************************)
EXTENDS Integers, Sequences, FiniteSets, TLC

VARIABLES
    report,     \* the ReportJSON the caller holds
    scores,     \* the JSONScores extracted from it
    pool,       \* the ScorePool built for curve computation
    curve,      \* the Curve the caller holds (computed or loaded)
    options,    \* the options of the last checkCompatibility call
    compat,     \* the CompatibilityResult of the last checkCompatibility call
    grades,     \* the CurvedLetterGrades of the last applyCurve call
    curved,     \* the CurvedReport of the last mergeIntoCurvedReport call
    error,      \* the message of the Error the last call threw, NoError if none
    batch,      \* the list of JSONScores handed to createScorePool
    config,     \* the EventConfig handed to createScorePool
    target,     \* the ReportJSON handed to the last mergeIntoCurvedReport call
    probe,      \* one getGrade call: its arguments and its result
    called,     \* the name of the function called last
    clock,      \* what new Date() reads
    regraded,   \* the CurvedLetterGrades of a second applyCurve call on the same arguments
    reports,    \* the raw reports handed to runFullPipeline
    outcome,    \* what runFullPipeline returned
    decoded,    \* a decoded JSONScores of the Effect schemas (its stored fields)
    abilities,  \* what its ability_scores getter returned
    original,   \* the decoded value handed to the last encode call
    encoded,    \* what that encode call returned
    redecoded,  \* what decoding that encoded value returned
    derivedTotals \* the totals derived from the decoded JSONScores

vars == <<report, scores, pool, curve, options, compat, grades, curved, error,
          batch, config, target, probe, called, clock, regraded, reports, outcome,
          decoded, abilities, original, encoded, redecoded, derivedTotals>>

\* ------------------------------------------------------------------ bounds

\* The largest number of problem scores of a decoded JSONScores.
MaxProblems == 2

\* The largest reading of the clock.
MaxClock == 1

\* Scores are drawn from the grid { i / ScoreScale : i = 0 .. ScoreScale },
\* cut to three decimals.
ScoreScale == 2

\* The number of steps of the score grid within one thousandth.
Grain == 4

\* The largest number of values handed to computeStdDevThresholds, and of
\* participants in a pool.
MaxPool == 3

\* ------------------------------------------------------------- constants

NoValue == [none |-> TRUE]
NoError == [kind |-> "none"]

\* A call that returns v, and a call that throws new Error(e).
Ok(v) == [ok |-> TRUE, value |-> v, error |-> NoError]
Throw(e) == [ok |-> FALSE, value |-> NoValue, error |-> e]

\* Math.round(x * 1000) / 1000
Thousand == 1000

\* The score k / 1000, and the score 1.0.
Milli(k) == k * Grain
One == Milli(Thousand)

ScoreValues == { Milli((i * Thousand) \div ScoreScale) : i \in 0..ScoreScale }

GRADES == <<"A", "B", "C", "D">>

\* The triple of applyCurve's fallback, returned for an empty value list.
EmptyThresholdsOfApplyCurve == <<Milli(800), Milli(600), Milli(400)>>

\* computeStdDevThresholds: the triple returned for an empty value list.
EmptyThresholds == <<Milli(800), Milli(500), Milli(200)>>

\* applyCurve: the triple used when the curve has no entry for an id.
FallbackThresholds == <<Milli(800), Milli(600), Milli(400)>>

\* PROBLEM_IDS of the generator: "003400", "003401", "005000".
P003400 == <<0, 0, 3, 4, 0, 0>>
P003401 == <<0, 0, 3, 4, 0, 1>>
P005000 == <<0, 0, 5, 0, 0, 0>>

\* DIMENSION_IDS of the generator (the first two).
DIMENSION_IDS == <<"discovery", "representation">>

EVENT_ID == "event_2024_01"
PROMPT_VERSION_HASH == "abc1234def5678"
OtherPromptVersionHash == "fff0000aaa1111"

\* ---------------------------------------------------------------- helpers

Range(s) == { s[i] : i \in DOMAIN s }

RECURSIVE SumSeq(_)
SumSeq(s) == IF s = <<>> THEN 0 ELSE Head(s) + SumSeq(Tail(s))

\* values.reduce((sum, v) => sum + v * v, 0)
RECURSIVE SumSq(_)
SumSq(s) == IF s = <<>> THEN 0 ELSE Head(s) * Head(s) + SumSq(Tail(s))

\* array.flatMap over a sequence of sequences
RECURSIVE Flatten(_)
Flatten(ss) == IF ss = <<>> THEN <<>> ELSE Head(ss) \o Flatten(Tail(ss))

\* new Set(array), iterated: the elements in order of first occurrence.
RECURSIVE Dedup(_)
Dedup(s) ==
    IF s = <<>> THEN <<>>
    ELSE LET init == Dedup(SubSeq(s, 1, Len(s) - 1))
             last == s[Len(s)]
         IN  IF last \in Range(init) THEN init ELSE Append(init, last)

\* array.find(pred), given the matches in order: the first, NoValue for undefined.
First(hits) == IF hits = <<>> THEN NoValue ELSE Head(hits)

\* The largest r with r * r <= n, by bisection on lo .. hi.
RECURSIVE ISqrtIn(_, _, _)
ISqrtIn(n, lo, hi) ==
    IF lo >= hi THEN lo
    ELSE LET mid == (lo + hi + 1) \div 2
         IN  IF mid * mid <= n THEN ISqrtIn(n, mid, hi) ELSE ISqrtIn(n, lo, mid - 1)

\* The smallest r with r * r >= n, r in 0 .. hi.
ICeilSqrtIn(n, hi) == LET r == ISqrtIn(n, 0, hi) IN IF r * r = n THEN r ELSE r + 1

Max(a, b) == IF a >= b THEN a ELSE b
Min(a, b) == IF a <= b THEN a ELSE b

\* ============================================================== the code

\* ------------------------------------------------- Stage 4b helper: getGrade

\* The comparison turned around, score <= thresholds[i].
AtLeastInverted(score, thresholds, i) == i <= Len(thresholds) /\ score <= thresholds[i]

\* The comparison with an exclusive bound, score > thresholds[i].
AtLeastStrict(score, thresholds, i) == i <= Len(thresholds) /\ score > thresholds[i]

\* score >= thresholds[i]; a comparison with undefined is false.
AtLeast(score, thresholds, i) == i <= Len(thresholds) /\ score >= thresholds[i]

getGrade(score, thresholds) ==
    IF AtLeast(score, thresholds, 1) THEN "A"
    ELSE IF AtLeast(score, thresholds, 2) THEN "B"
    ELSE IF AtLeast(score, thresholds, 3) THEN "C"
    ELSE "D"

\* ------------------------------------- Stage 3b helper: computeStdDevThresholds

\* Math.max(0, Math.min(1, v))
clamp(v) == Max(0, Min(One, v))

\* Math.round(clamp(x) * 1000) / 1000 for the score x = num / den (den > 0):
\* floor(x in thousandths + 1/2), as a score, clamped.
RoundClamp(num, den) ==
    IF num < 0 THEN 0
    ELSE clamp(Milli((2 * num + den * Grain) \div (2 * den * Grain)))

\* With n values of sum S: mean = S / n and
\* stdDev = sqrt(n * SumSq - S * S) / n, so that, m being n * Grain,
\*   round(mean + stdDev) = floor((2 S + m + sqrt(4 V)) / (2 m)) thousandths
\*   round(mean - stdDev) = floor((2 S + m - sqrt(4 V)) / (2 m)) thousandths
\* with V = n * SumSq - S * S, and floor(a + sqrt(b)) = a + floor(sqrt(b)),
\* floor(a - sqrt(b)) = a - ceil(sqrt(b)) for integers a, b.
\* mean + stdDev, clamped and rounded
UpperThreshold(values) ==
    LET n  == Len(values)
        m  == n * Grain
        S  == SumSeq(values)
        V  == n * SumSq(values) - S * S
        up == ISqrtIn(4 * V, 0, 2 * One * n)
    IN  clamp(Milli((2 * S + m + up) \div (2 * m)))

\* The mean clamped and cut to three decimals, Math.floor for Math.round.
MiddleThresholdFloor(values) ==
    clamp(Milli(SumSeq(values) \div (Len(values) * Grain)))

\* mean, clamped and rounded
MiddleThreshold(values) == RoundClamp(SumSeq(values), Len(values))

\* The lower threshold with the sign of stdDev slipped: mean + stdDev.
LowerThresholdSignSlip(values) == UpperThreshold(values)

\* mean - stdDev, clamped and rounded
LowerThreshold(values) ==
    LET n  == Len(values)
        m  == n * Grain
        S  == SumSeq(values)
        V  == n * SumSq(values) - S * S
        dn == ICeilSqrtIn(4 * V, 2 * One * n)
        loNum == 2 * S + m - dn
    IN  IF loNum < 0 THEN 0 ELSE clamp(Milli(loNum \div (2 * m)))

computeStdDevThresholds(values) ==
    IF Len(values) = 0 THEN EmptyThresholds
    ELSE << UpperThreshold(values), MiddleThreshold(values), LowerThreshold(values) >>

ThresholdDefinition(t) == [thresholds |-> t, grades |-> GRADES]

\* --------------------------------------------- schema validation

\* schema.parse(x) throws a ZodError when x does not fit the schema.
ZodError(schema) == [kind |-> "ZodError", schema |-> schema]

\* ProblemIdSchema: /^\d{6,8}$/
ValidProblemId(pid) ==
    /\ Len(pid) >= 6 /\ Len(pid) <= 8
    /\ \A i \in DOMAIN pid : pid[i] \in 0..9

\* ScoreValueSchema: z.number().min(0).max(1)
ValidScore(v) == v >= 0 /\ v <= One

ValidAbilityScores(as) == \A i \in DOMAIN as : ValidScore(as[i].score)

\* ReportJSONSchema
ValidReportJSON(r) ==
    /\ \A i \in DOMAIN r.problems :
          /\ ValidProblemId(r.problems[i].problem_id)
          /\ ValidScore(r.problems[i].objective_score)
          /\ ValidAbilityScores(r.problems[i].dimension_scores)
    /\ ValidAbilityScores(r.abilities)
    /\ ValidScore(r.totals.total_problem_score)
    /\ ValidScore(r.totals.total_ability_score)
    /\ ValidScore(r.totals.final_total_score)
    /\ r.letter_grades = NoValue

\* JSONScoresSchema
ValidJSONScores(sc) ==
    /\ \A i \in DOMAIN sc.problem_scores :
          /\ ValidProblemId(sc.problem_scores[i].problem_id)
          /\ ValidScore(sc.problem_scores[i].objective_score)
          /\ ValidAbilityScores(sc.problem_scores[i].dimension_scores)
    /\ ValidAbilityScores(sc.ability_scores)
    /\ ValidScore(sc.totals.total_problem_score)
    /\ ValidScore(sc.totals.total_ability_score)
    /\ ValidScore(sc.totals.final_total_score)

\* ThresholdDefinitionSchema: thresholds: z.array(ScoreValueSchema)
ValidThresholds(t) == \A i \in DOMAIN t : ValidScore(t[i])

\* CurveSchema
ValidCurve(cv) ==
    /\ \A i \in DOMAIN cv.problem_ids : ValidProblemId(cv.problem_ids[i])
    /\ cv.sample_size > 0
    /\ ValidThresholds(cv.totals.total_problem.thresholds)
    /\ ValidThresholds(cv.totals.total_ability.thresholds)
    /\ ValidThresholds(cv.totals.final_total.thresholds)
    /\ \A i \in DOMAIN cv.ability_curves : ValidThresholds(cv.ability_curves[i].thresholds)
    /\ \A i \in DOMAIN cv.problem_curves :
          /\ ValidProblemId(cv.problem_curves[i].problem_id)
          /\ ValidThresholds(cv.problem_curves[i].thresholds)

\* --------------------------------------------- Stage 1: validateReportJSON

\* validateReportJSON letting every input through.
validateReportJSONUnchecked(input) == Ok(input)

validateReportJSON(input) ==
    IF ~ValidReportJSON(input)
    THEN Throw([kind |-> "Report JSON validation failed"])
    ELSE IF input.letter_grades # NoValue
    THEN Throw([kind |-> "Report JSON must have letter_grades = null (uncurved)"])
    ELSE Ok(input)

\* --------------------------------------------- Stage 2: extractScores

\* The ReportJSON's dimension_scores object is held as the sequence of its
\* entries, as Object.entries lists them.
JSONScoresOf(r) ==
    [ source_report_id |-> r.report_id,
      event_id         |-> r.event_id,
      participant_id   |-> r.participant_id,
      totals           |-> r.totals,
      ability_scores   |-> [i \in DOMAIN r.abilities |->
                               [dimension_id |-> r.abilities[i].dimension_id,
                                score        |-> r.abilities[i].score]],
      problem_scores   |-> [i \in DOMAIN r.problems |->
                               [problem_id       |-> r.problems[i].problem_id,
                                objective_score  |-> r.problems[i].objective_score,
                                dimension_scores |-> r.problems[i].dimension_scores]] ]

extractScores(r) ==
    IF ~ValidReportJSON(r) THEN Throw(ZodError("ReportJSON")) ELSE Ok(JSONScoresOf(r))

\* --------------------------------------------- Stage 3a: createScorePool

\* const pool: ScorePool = { ... }
ScorePoolOf(ss, cfg) ==
    [ event_id            |-> cfg.event_id,
      prompt_version_hash |-> cfg.prompt_version_hash,
      problem_ids         |-> cfg.problem_ids,
      dimension_ids       |-> cfg.dimension_ids,
      scores              |-> ss ]

\* createScorePool without the comparison of the event ids.
createScorePoolAnyEvent(ss, cfg) ==
    IF \E i \in DOMAIN ss : ~ValidJSONScores(ss[i])
    THEN Throw(ZodError("JSONScores[]"))
    ELSE IF Len(ss) = 0
    THEN Throw([kind |-> "Cannot create score pool from empty scores array"])
    ELSE Ok(ScorePoolOf(ss, cfg))

\* createScorePool with the length test off by one, length <= 1.
createScorePoolAtLeastTwo(ss, cfg) ==
    LET mismatchedEvents == SelectSeq(ss, LAMBDA sc : sc.event_id # cfg.event_id)
    IN  IF \E i \in DOMAIN ss : ~ValidJSONScores(ss[i])
        THEN Throw(ZodError("JSONScores[]"))
        ELSE IF Len(ss) <= 1
        THEN Throw([kind |-> "Cannot create score pool from empty scores array"])
        ELSE IF Len(mismatchedEvents) > 0
        THEN Throw([kind     |-> "Score pool event mismatch",
                    expected |-> cfg.event_id,
                    found    |-> mismatchedEvents[1].event_id])
        ELSE Ok(ScorePoolOf(ss, cfg))

createScorePool(ss, cfg) ==
    LET mismatchedEvents == SelectSeq(ss, LAMBDA sc : sc.event_id # cfg.event_id)
    IN  IF \E i \in DOMAIN ss : ~ValidJSONScores(ss[i])
        THEN Throw(ZodError("JSONScores[]"))
        ELSE IF Len(ss) = 0
        THEN Throw([kind |-> "Cannot create score pool from empty scores array"])
        ELSE IF Len(mismatchedEvents) > 0
        THEN Throw([kind     |-> "Score pool event mismatch",
                    expected |-> cfg.event_id,
                    found    |-> mismatchedEvents[1].event_id])
        ELSE Ok(ScorePoolOf(ss, cfg))

\* --------------------------------------------- Stage 3b: computeCurve

\* scores.flatMap(s => s.ability_scores.filter(a => a.dimension_id === did)
\*                                     .map(a => a.score))
DimScores(ss, did) ==
    Flatten([i \in DOMAIN ss |->
        LET hit == SelectSeq(ss[i].ability_scores, LAMBDA a : a.dimension_id = did)
        IN  [j \in DOMAIN hit |-> hit[j].score]])

\* scores.flatMap(s => s.problem_scores.filter(p => p.problem_id === pid)
\*                                     .map(p => p.objective_score))
ProbScores(ss, pid) ==
    Flatten([i \in DOMAIN ss |->
        LET hit == SelectSeq(ss[i].problem_scores, LAMBDA q : q.problem_id = pid)
        IN  [j \in DOMAIN hit |-> hit[j].objective_score]])

\* The number of problems of the pool, in place of its participants.
SampleSizeOfProblems(p) == Len(p.problem_ids)

\* sample_size: scores.length
SampleSize(p) == Len(p.scores)

\* uuid is what randomUUID() returns, now what new Date() reads.
computeCurve(p, uuid, now) ==
    LET ss == p.scores
    IN  [ curve_id            |-> uuid,
          source_event_id     |-> p.event_id,
          prompt_version_hash |-> p.prompt_version_hash,
          problem_ids         |-> p.problem_ids,
          dimension_ids       |-> p.dimension_ids,
          method              |-> [type |-> "standard_deviation",
                                   sigma_boundaries |-> <<1, 0, -1>>],
          sample_size         |-> SampleSize(p),
          computed_at         |-> now,
          totals |->
            [ total_problem |-> ThresholdDefinition(computeStdDevThresholds(
                  [i \in DOMAIN ss |-> ss[i].totals.total_problem_score])),
              total_ability |-> ThresholdDefinition(computeStdDevThresholds(
                  [i \in DOMAIN ss |-> ss[i].totals.total_ability_score])),
              final_total   |-> ThresholdDefinition(computeStdDevThresholds(
                  [i \in DOMAIN ss |-> ss[i].totals.final_total_score])) ],
          ability_curves |-> [k \in DOMAIN p.dimension_ids |->
              [dimension_id |-> p.dimension_ids[k],
               thresholds   |-> computeStdDevThresholds(DimScores(ss, p.dimension_ids[k])),
               grades       |-> GRADES]],
          problem_curves |-> [k \in DOMAIN p.problem_ids |->
              [problem_id |-> p.problem_ids[k],
               thresholds |-> computeStdDevThresholds(ProbScores(ss, p.problem_ids[k])),
               grades     |-> GRADES]] ]

\* --------------------------------------------- Stage 4a: checkCompatibility

\* The id kept whole, its language digit included.
extractBaseWhole(pid) == pid

\* pid.slice(0, -1)
extractBase(pid) == SubSeq(pid, 1, Len(pid) - 1)

\* options?.allowLanguageDifference
AllowLanguageDifference(opts) ==
    /\ "allowLanguageDifference" \in DOMAIN opts
    /\ opts.allowLanguageDifference

\* One problem id finds a match in the ids of the other side.
HasProblemMatch(pid, others, opts) ==
    IF AllowLanguageDifference(opts)
    THEN \E i \in DOMAIN others : extractBase(others[i]) = extractBase(pid)
    ELSE pid \in Range(others)

\* The message `${side} ... ${kind} ${id} ...` as its parts.
Reason(side, kind, id) == [side |-> side, kind |-> kind, id |-> id]

ReasonsFor(side, kind, ids) == [i \in DOMAIN ids |-> Reason(side, kind, ids[i])]

\* Only the first loop over the problem ids, the curve's.
ProblemReasonsCurveSide(scoreProblemIds, curveProblemIds, opts) ==
    ReasonsFor("curve", "problem",
        SelectSeq(curveProblemIds,
                  LAMBDA pid : ~HasProblemMatch(pid, scoreProblemIds, opts)))

\* The two loops over the problem ids: the curve's, then the scores'.
ProblemReasons(scoreProblemIds, curveProblemIds, opts) ==
    ReasonsFor("curve", "problem",
        SelectSeq(curveProblemIds,
                  LAMBDA pid : ~HasProblemMatch(pid, scoreProblemIds, opts)))
    \o ReasonsFor("scores", "problem",
        SelectSeq(scoreProblemIds,
                  LAMBDA pid : ~HasProblemMatch(pid, curveProblemIds, opts)))

\* The two loops over the dimension ids with their tests inverted, has(did)
\* in place of !has(did).
DimensionReasonsInverted(scoreDimIds, curveDimIds) ==
    ReasonsFor("curve", "dimension",
        SelectSeq(curveDimIds, LAMBDA did : did \in Range(scoreDimIds)))
    \o ReasonsFor("scores", "dimension",
        SelectSeq(scoreDimIds, LAMBDA did : did \in Range(curveDimIds)))

\* The two loops over the dimension ids: the curve's, then the scores'.
DimensionReasons(scoreDimIds, curveDimIds) ==
    ReasonsFor("curve", "dimension",
        SelectSeq(curveDimIds, LAMBDA did : did \notin Range(scoreDimIds)))
    \o ReasonsFor("scores", "dimension",
        SelectSeq(scoreDimIds, LAMBDA did : did \notin Range(curveDimIds)))

\* checkCompatibility after its two input parses.
CompatibilityOf(sc, cv, opts) ==
    LET scoreProblemIds == Dedup([i \in DOMAIN sc.problem_scores |->
                                     sc.problem_scores[i].problem_id])
        curveProblemIds == Dedup(cv.problem_ids)
        scoreDimIds     == Dedup([i \in DOMAIN sc.ability_scores |->
                                     sc.ability_scores[i].dimension_id])
        curveDimIds     == Dedup(cv.dimension_ids)
        reasons == ProblemReasons(scoreProblemIds, curveProblemIds, opts)
                   \o DimensionReasons(scoreDimIds, curveDimIds)
    IN  IF Len(reasons) > 0
        THEN [status |-> "incompatible", reasons |-> reasons]
        ELSE [status |-> "compatible"]

checkCompatibility(sc, cv, opts) ==
    IF ~ValidJSONScores(sc) THEN Throw(ZodError("JSONScores"))
    ELSE IF ~ValidCurve(cv) THEN Throw(ZodError("Curve"))
    ELSE Ok(CompatibilityOf(sc, cv, opts))

\* --------------------------------------------- Stage 4b: applyCurve

\* curveData?.thresholds ?? [0.8, 0.6, 0.4]
ThresholdsOrFallback(curveData) ==
    IF curveData = NoValue THEN FallbackThresholds ELSE curveData.thresholds

\* applyCurve after its parses and its compatibility check: the grades.
CurvedLetterGradesOf(sc, cv, now) ==
    [ source_scores_id |-> sc.source_report_id,
      curve_id         |-> cv.curve_id,
      computed_at      |-> now,
      total_grades |->
        [ total_problem_grade |-> getGrade(sc.totals.total_problem_score,
                                           cv.totals.total_problem.thresholds),
          total_ability_grade |-> getGrade(sc.totals.total_ability_score,
                                           cv.totals.total_ability.thresholds),
          final_total_grade   |-> getGrade(sc.totals.final_total_score,
                                           cv.totals.final_total.thresholds) ],
      ability_grades |-> [i \in DOMAIN sc.ability_scores |->
          LET a == sc.ability_scores[i]
              curveData == First(SelectSeq(cv.ability_curves,
                                LAMBDA c : c.dimension_id = a.dimension_id))
          IN  [dimension_id |-> a.dimension_id,
               grade |-> getGrade(a.score, ThresholdsOrFallback(curveData))]],
      problem_grades |-> [i \in DOMAIN sc.problem_scores |->
          LET q == sc.problem_scores[i]
              curveData == First(SelectSeq(cv.problem_curves,
                                LAMBDA c : c.problem_id = q.problem_id))
          IN  [problem_id |-> q.problem_id,
               grade |-> getGrade(q.objective_score,
                                  ThresholdsOrFallback(curveData))]] ]

\* applyCurve without the compatibility check, as the generator's applyCurve.
applyCurveUnchecked(sc, cv, now) ==
    IF ~ValidJSONScores(sc) THEN Throw(ZodError("JSONScores"))
    ELSE IF ~ValidCurve(cv) THEN Throw(ZodError("Curve"))
    ELSE Ok(CurvedLetterGradesOf(sc, cv, now))

applyCurve(sc, cv, now) ==
    IF ~ValidJSONScores(sc) THEN Throw(ZodError("JSONScores"))
    ELSE IF ~ValidCurve(cv) THEN Throw(ZodError("Curve"))
    ELSE LET compatibility == CompatibilityOf(sc, cv, NoValue)
         IN  IF compatibility.status = "incompatible"
             THEN Throw([kind |-> "Cannot apply curve",
                         reasons |-> compatibility.reasons])
             ELSE Ok(CurvedLetterGradesOf(sc, cv, now))

\* --------------------------------------------- Stage 5: mergeIntoCurvedReport

\* Object.fromEntries(entries) of [key, value] pairs: one key per distinct
\* key, the last entry wins.
FromEntries(entries) ==
    [k \in { entries[i][1] : i \in DOMAIN entries } |->
        LET last == CHOOSE i \in DOMAIN entries :
                        /\ entries[i][1] = k
                        /\ \A j \in DOMAIN entries : entries[j][1] = k => j <= i
        IN  entries[last][2]]

\* mergeIntoCurvedReport after its parses and its check: the curved report.
CurvedReportOf(r, g, uuid, now) ==
    [ curved_report_id    |-> uuid,
      source_report_id    |-> r.report_id,
      event_id            |-> r.event_id,
      prompt_version_hash |-> r.prompt_version_hash,
      applied_curve_id    |-> g.curve_id,
      curved_at           |-> now,
      participant_id      |-> r.participant_id,
      problems            |-> r.problems,
      abilities           |-> r.abilities,
      totals              |-> r.totals,
      letter_grades |->
        [ totals |-> [ total_problem |-> g.total_grades.total_problem_grade,
                       total_ability |-> g.total_grades.total_ability_grade,
                       final_total   |-> g.total_grades.final_total_grade ],
          abilities |-> FromEntries([i \in DOMAIN g.ability_grades |->
                         <<g.ability_grades[i].dimension_id, g.ability_grades[i].grade>>]),
          problems  |-> FromEntries([i \in DOMAIN g.problem_grades |->
                         <<g.problem_grades[i].problem_id, g.problem_grades[i].grade>>]) ] ]

\* mergeIntoCurvedReport without the id check, as the generator's.
mergeIntoCurvedReportUnchecked(r, g, uuid, now) ==
    IF ~ValidReportJSON(r) THEN Throw(ZodError("ReportJSON"))
    ELSE Ok(CurvedReportOf(r, g, uuid, now))

mergeIntoCurvedReport(r, g, uuid, now) ==
    IF ~ValidReportJSON(r) THEN Throw(ZodError("ReportJSON"))
    ELSE IF g.source_scores_id # r.report_id
    THEN Throw([kind |-> "Grades source_scores_id doesn't match report_id",
                source_scores_id |-> g.source_scores_id,
                report_id |-> r.report_id])
    ELSE Ok(CurvedReportOf(r, g, uuid, now))

\* --------------------------------------------- Effect schemas: ability_scores

\* DIMENSIONS (the first two).
DIMENSIONS == <<"Discovery-Self-Understanding", "Expression-Translation">>

\* An Option<ScoreValue>: None for null, Some(v) for a score.
None == NoValue
Some(v) == [value |-> v]

RECURSIVE GCD(_, _)
GCD(a, b) == IF b = 0 THEN a ELSE GCD(b, a % b)

\* The number num / den (num >= 0, den > 0), in lowest terms.
Fraction(num, den) ==
    LET g == GCD(num, den) IN [num |-> num \div g, den |-> den \div g]

\* values.reduce((a, b) => a + b, 0) / values.length
MeanOfAll(values) == Fraction(SumSeq(values), Len(values))

\* values.length === 0 ? 0 : sum / length
mean(values) == IF Len(values) = 0 THEN Fraction(0, 1) ELSE MeanOfAll(values)

\* Schema.decodeSync(ScoreValue): a number from 0 to 1, or a ParseError.
toScoreValue(q) ==
    IF 0 <= q.num /\ q.num <= One * q.den THEN Ok(q) ELSE Throw([kind |-> "ParseError"])

\* The dimension's value of every problem, null read as the score 0.
SomeValuesNullAsZero(problem_scores, dim) ==
    [i \in DOMAIN problem_scores |->
        IF problem_scores[i].dimension_scores[dim] = None THEN 0
        ELSE problem_scores[i].dimension_scores[dim].value]

\* problem_scores.map(p => p.dimension_scores[dim]).filter(Option.isSome)
\*               .map(o => o.value)
SomeValues(problem_scores, dim) ==
    LET tested == SelectSeq(problem_scores, LAMBDA q : q.dimension_scores[dim] # None)
    IN  [i \in DOMAIN tested |-> tested[i].dimension_scores[dim].value]

\* get ability_scores() / computeAbilityScores(scores)
computeAbilityScores(sc) ==
    LET entries == [k \in DOMAIN DIMENSIONS |->
                       toScoreValue(mean(SomeValues(sc.problem_scores, DIMENSIONS[k])))]
        thrown  == SelectSeq(entries, LAMBDA e : ~e.ok)
    IN  IF Len(thrown) > 0 THEN Throw(thrown[1].error)
        ELSE Ok(FromEntries([k \in DOMAIN DIMENSIONS |-> <<DIMENSIONS[k], entries[k].value>>]))

\* A score as a fraction of 1, and the sum and the product of two fractions.
Unit(q) == Fraction(q.num, q.den * One)
Plus(a, b) == Fraction(a.num * b.den + b.num * a.den, a.den * b.den)
Times(a, b) == Fraction(a.num * b.num, a.den * b.den)

\* mean, of values that are fractions themselves.
RECURSIVE SumOfFractions(_)
SumOfFractions(qs) ==
    IF qs = <<>> THEN Fraction(0, 1) ELSE Plus(Head(qs), SumOfFractions(Tail(qs)))

meanOfScoreValues(qs) ==
    IF Len(qs) = 0 THEN Fraction(0, 1)
    ELSE LET sum == SumOfFractions(qs) IN Fraction(sum.num, sum.den * Len(qs))

\* Math.sqrt(a * b): the square root of the radicand, a fraction of 1.
geoMean2(a, b) == [radicand |-> Times(Unit(a), Unit(b))]

\* Schema.decodeSync(ScoreValue) of a square root: 0 <= sqrt(r) <= 1.
toScoreValueOfRoot(x) ==
    IF x.radicand.num <= x.radicand.den THEN Ok(x) ELSE Throw([kind |-> "ParseError"])

\* Object.values(abilities)
AbilityValues(ab) == [k \in DOMAIN DIMENSIONS |-> ab[DIMENSIONS[k]]]

\* totalProblem and totalAbility, as both the getter and the function derive
\* them: the mean task_score and the mean of the ability scores.
ProblemAndAbilityTotals(sc) ==
    LET ab == computeAbilityScores(sc)
        tp == toScoreValue(mean([i \in DOMAIN sc.problem_scores |->
                                    sc.problem_scores[i].task_score]))
    IN  IF ~ab.ok THEN ab
        ELSE IF ~tp.ok THEN tp
        ELSE LET ta == toScoreValue(meanOfScoreValues(AbilityValues(ab.value)))
             IN  IF ~ta.ok THEN ta
                 ELSE Ok([total_problem_score |-> tp.value,
                          total_ability_score |-> ta.value])

\* The returned object of the three totals.
ThreeTotals(two, finalTotal) ==
    [total_problem_score |-> two.total_problem_score,
     total_ability_score |-> two.total_ability_score,
     final_total_score   |-> finalTotal]

\* computeScoreTotals(scores):
\*   finalTotal = toScoreValue(mean([totalProblem, totalAbility]))
computeScoreTotals(sc) ==
    LET two == ProblemAndAbilityTotals(sc)
    IN  IF ~two.ok THEN two
        ELSE LET ft == toScoreValue(meanOfScoreValues(<<two.value.total_problem_score,
                                                        two.value.total_ability_score>>))
             IN  IF ~ft.ok THEN ft ELSE Ok(ThreeTotals(two.value, ft.value))

\* get totals() with the arithmetic mean of computeScoreTotals.
totalsArithmetic(sc) == computeScoreTotals(sc)

\* get totals(): finalTotal = toScoreValue(geoMean2(totalProblem, totalAbility))
totals(sc) ==
    LET two == ProblemAndAbilityTotals(sc)
    IN  IF ~two.ok THEN two
        ELSE LET ft == toScoreValueOfRoot(geoMean2(two.value.total_problem_score,
                                                   two.value.total_ability_score))
             IN  IF ~ft.ok THEN ft ELSE Ok(ThreeTotals(two.value, ft.value))

\* --------------------------------------------- Effect schemas: encode, decode

\* JSON's null, and a JSON number or string.
JsonNull == [json |-> "null"]
JsonValue(v) == [json |-> "value", value |-> v]

\* Schema.OptionFromNullOr: None <-> null, Some(v) <-> v
encodeOption(o) == IF o = None THEN JsonNull ELSE JsonValue(o.value)
decodeOption(j) == IF j = JsonNull THEN None ELSE Some(j.value)

\* The ISO string of an instant cut at the second, without its milliseconds.
formatIsoWholeSeconds(t) ==
    [ day    |-> t.day,
      hour   |-> t.ms \div 3600000,
      minute |-> (t.ms \div 60000) % 60,
      second |-> (t.ms \div 1000) % 60,
      millis |-> 0 ]

\* Schema.DateTimeUtc, encode: the instant (a day and the milliseconds since
\* its midnight) as the string YYYY-MM-DDTHH:mm:ss.sssZ, held by its parts.
formatIso(t) ==
    [ day    |-> t.day,
      hour   |-> t.ms \div 3600000,
      minute |-> (t.ms \div 60000) % 60,
      second |-> (t.ms \div 1000) % 60,
      millis |-> t.ms % 1000 ]

\* Schema.DateTimeUtc, decode: the instant of an ISO string.
parseIso(str) ==
    [ day |-> str.day,
      ms  |-> ((str.hour * 60 + str.minute) * 60 + str.second) * 1000 + str.millis ]

\* Schema.Record({ key: Dimension, value: Schema.OptionFromNullOr(...) })
encodeDimensionRecord(rec) == [dim \in DOMAIN rec |-> encodeOption(rec[dim])]
decodeDimensionRecord(rec) == [dim \in DOMAIN rec |-> decodeOption(rec[dim])]

\* ProblemDimensionMap
encodeProblemDimensionMap(m) == [m EXCEPT !.created_at = formatIso(@)]
decodeProblemDimensionMap(m) == [m EXCEPT !.created_at = parseIso(@)]

\* ProblemScore
encodeProblemScore(q) == [q EXCEPT !.dimension_scores = encodeDimensionRecord(@)]
decodeProblemScore(q) == [q EXCEPT !.dimension_scores = decodeDimensionRecord(@)]

\* Schema.encodeSync(JSONScores): the declared fields of the class, encoded.
encodeJSONScores(d) ==
    [ scores_id           |-> d.scores_id,
      event_id            |-> d.event_id,
      prompt_version_hash |-> d.prompt_version_hash,
      dimension_map       |-> encodeProblemDimensionMap(d.dimension_map),
      generated_at        |-> formatIso(d.generated_at),
      participant_id      |-> d.participant_id,
      problem_scores      |-> [i \in DOMAIN d.problem_scores |->
                                  encodeProblemScore(d.problem_scores[i])] ]

\* ProblemId of the Effect schemas: /^\d{6}$/ and s[5] === "0" || s[5] === "1"
ProblemId(pid) ==
    /\ Len(pid) = 6
    /\ \A i \in DOMAIN pid : pid[i] \in 0..9
    /\ pid[6] \in {0, 1}

\* What the JSONScores schema accepts of a stored value.
ValidStoredJSONScores(j) ==
    /\ \A i \in DOMAIN j.dimension_map.entries :
          ProblemId(j.dimension_map.entries[i].problem_id)
    /\ \A i \in DOMAIN j.problem_scores :
          /\ ProblemId(j.problem_scores[i].problem_id)
          /\ ValidScore(j.problem_scores[i].task_score)
          /\ \A dim \in DOMAIN j.problem_scores[i].dimension_scores :
                LET v == j.problem_scores[i].dimension_scores[dim]
                IN  v # JsonNull => ValidScore(v.value)

JSONScoresFrom(j) ==
    [ scores_id           |-> j.scores_id,
      event_id            |-> j.event_id,
      prompt_version_hash |-> j.prompt_version_hash,
      dimension_map       |-> decodeProblemDimensionMap(j.dimension_map),
      generated_at        |-> parseIso(j.generated_at),
      participant_id      |-> j.participant_id,
      problem_scores      |-> [i \in DOMAIN j.problem_scores |->
                                  decodeProblemScore(j.problem_scores[i])] ]

\* decodeJSONScores = Schema.decodeUnknownSync(JSONScores)
decodeJSONScores(j) ==
    IF ~ValidStoredJSONScores(j) THEN Throw([kind |-> "ParseError"])
    ELSE Ok(JSONScoresFrom(j))

\* ProblemGrade
encodeProblemGrade(g) == [g EXCEPT !.dimension_grades = encodeDimensionRecord(@)]
decodeProblemGrade(g) == [g EXCEPT !.dimension_grades = decodeDimensionRecord(@)]

\* Schema.encodeSync(CurvedScores)
encodeCurvedScores(c) ==
    [ curved_scores_id |-> c.curved_scores_id,
      source           |-> encodeJSONScores(c.source),
      applied_curve_id |-> c.applied_curve_id,
      curved_at        |-> formatIso(c.curved_at),
      problem_grades   |-> [i \in DOMAIN c.problem_grades |->
                               encodeProblemGrade(c.problem_grades[i])],
      ability_grades   |-> c.ability_grades,
      total_grades     |-> c.total_grades ]

\* decodeCurvedScores = Schema.decodeUnknownSync(CurvedScores)
decodeCurvedScores(j) ==
    IF \/ ~ValidStoredJSONScores(j.source)
       \/ \E i \in DOMAIN j.problem_grades : ~ProblemId(j.problem_grades[i].problem_id)
    THEN Throw([kind |-> "ParseError"])
    ELSE Ok([ curved_scores_id |-> j.curved_scores_id,
              source           |-> JSONScoresFrom(j.source),
              applied_curve_id |-> j.applied_curve_id,
              curved_at        |-> parseIso(j.curved_at),
              problem_grades   |-> [i \in DOMAIN j.problem_grades |->
                                       decodeProblemGrade(j.problem_grades[i])],
              ability_grades   |-> j.ability_grades,
              total_grades     |-> j.total_grades ])

\* --------------------------------------------- Full pipeline: runFullPipeline

\* The indices of rs, in order, whose entry is a call that returned
\* (ok = TRUE) or one that threw (ok = FALSE).
IndicesWhere(rs, ok) ==
    SelectSeq([i \in DOMAIN rs |-> i], LAMBDA i : rs[i].ok = ok)

\* errors.push(`${stage} ${i}: ${e.message}`) for the calls of rs that threw;
\* i counts from 0.
ErrorsOf(stage, rs) ==
    LET failed == IndicesWhere(rs, FALSE)
    IN  [k \in DOMAIN failed |->
            [stage |-> stage, index |-> failed[k] - 1, error |-> rs[failed[k]].error]]

\* The values of the calls of rs that returned, in order.
ValuesOf(rs) ==
    LET passed == IndicesWhere(rs, TRUE)
    IN  [k \in DOMAIN passed |-> rs[passed[k]].value]

\* Stages 4 and 5 for one valid report: applyCurve, then mergeIntoCurvedReport.
CurveOneReport(r, sc, cv, uuid, now) ==
    LET g == applyCurve(sc, cv, now)
    IN  IF g.ok THEN mergeIntoCurvedReport(r, g.value, uuid, now) ELSE g

\* uuid is what randomUUID() returns in computeCurve, uuids[i] what it returns
\* in the i-th mergeIntoCurvedReport, now what new Date() reads.
runFullPipeline(rs, cfg, uuid, uuids, now) ==
    LET validations  == [i \in DOMAIN rs |-> validateReportJSON(rs[i])]
        validReports == ValuesOf(validations)
        extractions  == [i \in DOMAIN validReports |-> extractScores(validReports[i])]
        pooled       == createScorePool(ValuesOf(extractions), cfg)
    IN  IF Len(validReports) = 0
        THEN Throw([kind |-> "No valid reports to process"])
        ELSE IF \E i \in DOMAIN extractions : ~extractions[i].ok
        THEN Throw(ErrorsOf("extractScores", extractions)[1].error)
        ELSE IF ~pooled.ok THEN Throw(pooled.error)
        ELSE LET cv == computeCurve(pooled.value, uuid, now)
                 curvings == [i \in DOMAIN validReports |->
                                 CurveOneReport(validReports[i], extractions[i].value,
                                                cv, uuids[i], now)]
             IN  Ok([ curvedReports |-> ValuesOf(curvings),
                      curve         |-> cv,
                      errors        |-> ErrorsOf("Report", validations)
                                        \o ErrorsOf("Curving report", curvings) ])

\* ============================================================ the inputs

\* randomUUID()
CurveIds  == {"uuid-c1", "uuid-c2"}
CurvedReportIds == {"uuid-x1", "uuid-x2"}

\* The i-th entry of a list scores a if it is the first, b otherwise.
Lvl(i, a, b) == IF i = 1 THEN a ELSE b

\* A ReportJSON that passes ReportJSONSchema: problems pids, each scored on
\* every dimension of dims, abilities dims.
Report(rid, pids, dims, a, b) ==
    [ report_id           |-> rid,
      event_id            |-> EVENT_ID,
      prompt_version_hash |-> PROMPT_VERSION_HASH,
      generated_at        |-> 0,
      participant_id      |-> "participant_001",
      problems  |-> [i \in DOMAIN pids |->
          [problem_id       |-> pids[i],
           dimension_scores |-> [k \in DOMAIN dims |->
                                    [dimension_id |-> dims[k], score |-> Lvl(k, b, a)]],
           objective_score  |-> Lvl(i, a, b)]],
      abilities |-> [k \in DOMAIN dims |->
          [dimension_id |-> dims[k], score |-> Lvl(k, a, b)]],
      totals    |-> [total_problem_score |-> a,
                     total_ability_score |-> b,
                     final_total_score   |-> a],
      letter_grades |-> NoValue ]

ScoresProblemLists ==
    { <<P003400>>, <<P003400, P005000>>, <<P003400, P003401>>, <<P003401>>,
      <<P003400, P003400>> }

CurveProblemLists ==
    { <<P003400>>, <<P003400, P005000>>, <<P003400, P003401>>, <<P003401>>,
      <<P005000, P005000>> }

DimensionLists == { <<DIMENSION_IDS[1]>>, DIMENSION_IDS }

\* A score between two thousandths, nearer to the upper one (0.77475 when
\* Grain is 4): ScoreValueSchema is z.number().min(0).max(1).
OffGrid == Milli(774) + Grain - 1

\* A score above the range of ScoreValueSchema.
OutOfRange == One + One \div 2

\* The reports that pass ReportJSONSchema, one with a score out of range and
\* one with a malformed problem id.
ReportInputs ==
    { Report("uuid-r1", pids, dims, a, b) :
        pids \in ScoresProblemLists, dims \in DimensionLists,
        a \in ScoreValues, b \in ScoreValues }
    \cup { Report("uuid-r1", <<P003400>>, DIMENSION_IDS, OutOfRange, 0),
           Report("uuid-r1", <<SubSeq(P003400, 1, 5)>>, DIMENSION_IDS, One, 0) }

\* Another report of the caller's batch.
OtherReport == Report("uuid-r2", <<P003400>>, DIMENSION_IDS, 0, One)

\* The thresholds of a stored curve.
StoredThresholds == <<Milli(700), Milli(500), Milli(300)>>

\* Thresholds of a stored curve in ascending order: scores that pass
\* z.array(ScoreValueSchema).
AscendingThresholds == <<Milli(300), Milli(500), Milli(700)>>

\* s without its first drop entries.
DropHead(s, drop) == SubSeq(s, drop + 1, Len(s))

\* A stored Curve: problem_ids pids, dimension_ids dims, one threshold entry
\* for each of them but the first drop, computed from size participants.
StoredCurve(uuid, hash, pids, dims, drop, size) ==
    [ curve_id            |-> uuid,
      source_event_id     |-> EVENT_ID,
      prompt_version_hash |-> hash,
      problem_ids         |-> pids,
      dimension_ids       |-> dims,
      method              |-> [type |-> "standard_deviation",
                               sigma_boundaries |-> <<1, 0, -1>>],
      sample_size         |-> size,
      computed_at         |-> 0,
      totals |-> [ total_problem |-> ThresholdDefinition(StoredThresholds),
                   total_ability |-> ThresholdDefinition(StoredThresholds),
                   final_total   |-> ThresholdDefinition(StoredThresholds) ],
      ability_curves |-> DropHead([k \in DOMAIN dims |->
                            [dimension_id |-> dims[k],
                             thresholds   |-> StoredThresholds,
                             grades       |-> GRADES]], drop),
      problem_curves |-> DropHead([k \in DOMAIN pids |->
                            [problem_id |-> pids[k],
                             thresholds |-> StoredThresholds,
                             grades     |-> GRADES]], drop) ]

CurveInputs ==
    UNION { { StoredCurve("uuid-c1", PROMPT_VERSION_HASH, pids, dims, 0, 1),
              StoredCurve("uuid-c2", PROMPT_VERSION_HASH, pids, dims, 0, 1),
              StoredCurve("uuid-c1", OtherPromptVersionHash, pids, dims, 0, 1),
              StoredCurve("uuid-c1", PROMPT_VERSION_HASH, pids, dims, 1, 1),
              StoredCurve("uuid-c1", PROMPT_VERSION_HASH, pids, dims, 0, 0),
              [StoredCurve("uuid-c1", PROMPT_VERSION_HASH, pids, dims, 0, 1)
                  EXCEPT !.totals.final_total.thresholds = AscendingThresholds] } :
            pids \in CurveProblemLists, dims \in DimensionLists }

\* checkCompatibility's third argument: omitted, or the flag either way.
OptionInputs ==
    { NoValue, [allowLanguageDifference |-> TRUE], [allowLanguageDifference |-> FALSE] }

\* The EventConfig of the generator, and one of another event.
EventConfig(evt) ==
    [ event_id            |-> evt,
      name                |-> "AI Competency Assessment 2024-01",
      problem_ids         |-> <<P003400, P005000>>,
      dimension_ids       |-> DIMENSION_IDS,
      language            |-> "zh",
      prompt_version_hash |-> PROMPT_VERSION_HASH ]

\* The generator's EventConfig with a third dimension of DIMENSION_IDS, one
\* that no participant of the pools has a score for.
WiderEventConfig ==
    [EventConfig(EVENT_ID) EXCEPT !.dimension_ids = @ \o <<"iterative-refinement">>]

ConfigInputs == { EventConfig(EVENT_ID), EventConfig("event_2024_02"), WiderEventConfig }

\* The scores of one participant of a pool.
PoolScores ==
    { JSONScoresOf(Report(rid, pids, DIMENSION_IDS, a, One - a)) :
        rid \in {"uuid-r1"},
        pids \in { <<P003400>>, <<P003400, P005000>>, <<P003400, P003401>> },
        a \in ScoreValues }

RECURSIVE SeqsUpTo(_, _)
SeqsUpTo(S, n) ==
    IF n = 0 THEN { <<>> }
    ELSE LET shorter == SeqsUpTo(S, n - 1)
         IN  shorter \cup { Append(q, x) : q \in shorter, x \in S }

BatchInputs == SeqsUpTo(PoolScores, MaxPool)

ProbeInputs ==
    [ score : ScoreValues,
      thresholds : { <<x, y, z>> : x \in ScoreValues, y \in ScoreValues, z \in ScoreValues },
      grade : {"none"} ]

\* Problem ids "003402" (sixth digit 2) and "0050000" (seven digits).
P003402 == <<0, 0, 3, 4, 0, 2>>
P0050000 == <<0, 0, 5, 0, 0, 0, 0>>

\* The raw reports of a pipeline run: reports of the config's problems and
\* dimensions, one with a score out of range, one that already has letter
\* grades, one that lacks a problem of the config, and one whose problem ids
\* are "003402" and "0050000", one of another event, and one whose scores
\* have more than three decimals.
PipelineReports ==
    { Report("uuid-r1", <<P003400, P005000>>, DIMENSION_IDS, a, One - a) :
        a \in ScoreValues }
    \cup { Report("uuid-r1", <<P003400, P005000>>, DIMENSION_IDS, OutOfRange, 0),
           [Report("uuid-r1", <<P003400, P005000>>, DIMENSION_IDS, One, 0)
               EXCEPT !.letter_grades = [final_total |-> "A"]],
           Report("uuid-r1", <<P003400>>, DIMENSION_IDS, One, 0),
           Report("uuid-r1", <<P003402, P0050000>>, DIMENSION_IDS, One, 0),
           [Report("uuid-r1", <<P003400, P005000>>, DIMENSION_IDS, 0, One)
               EXCEPT !.event_id = "event_2024_02"],
           Report("uuid-r1", <<P003400, P005000>>, DIMENSION_IDS, OffGrid, One - OffGrid) }

ReportBatches == SeqsUpTo(PipelineReports, MaxPool)

\* What randomUUID() returns during one run: the curve's id, and the id of
\* the i-th curved report.
UuidSalts == {"a", "b"}
CurveUuid(salt) == <<"uuid-c", salt>>
CurvedUuids(salt) == [i \in 1..MaxPool |-> <<"uuid-x", salt, i>>]

\* ======================================================== the state machine

\* --- grading one participant: extract, obtain a curve, check, apply, merge

Init ==
    /\ report \in ReportInputs
    /\ scores = NoValue /\ pool = NoValue /\ curve = NoValue
    /\ options = NoValue /\ compat = NoValue /\ grades = NoValue /\ curved = NoValue
    /\ error = NoError /\ batch = <<>> /\ config = NoValue /\ target = NoValue
    /\ probe = NoValue /\ called = "none" /\ clock = 0 /\ regraded = NoValue
    /\ reports = <<>> /\ outcome = NoValue
    /\ decoded = NoValue /\ abilities = NoValue
    /\ original = NoValue /\ encoded = NoValue /\ redecoded = NoValue
    /\ derivedTotals = NoValue

ExtractScores ==
    /\ report # NoValue /\ scores = NoValue /\ error = NoError
    /\ LET r == extractScores(report)
       IN  scores' = r.value /\ error' = r.error
    /\ called' = "extractScores"
    /\ UNCHANGED <<report, pool, curve, options, compat, grades, curved,
                   batch, config, target, probe, clock, regraded, reports, outcome,
                   decoded, abilities, original, encoded, redecoded,
                   derivedTotals>>

\* The caller takes a stored curve.
LoadCurve ==
    /\ scores # NoValue /\ curve = NoValue /\ pool = NoValue
    /\ \E c \in CurveInputs : curve' = c
    /\ called' = "loadCurve"
    /\ UNCHANGED <<report, scores, pool, options, compat, grades, curved, error,
                   batch, config, target, probe, clock, regraded, reports, outcome,
                   decoded, abilities, original, encoded, redecoded,
                   derivedTotals>>

CheckCompatibility ==
    /\ scores # NoValue /\ curve # NoValue
    /\ compat = NoValue /\ grades = NoValue /\ error = NoError
    /\ \E o \in OptionInputs :
          LET r == checkCompatibility(scores, curve, o)
          IN  options' = o /\ compat' = r.value /\ error' = r.error
    /\ called' = "checkCompatibility"
    /\ UNCHANGED <<report, scores, pool, curve, grades, curved,
                   batch, config, target, probe, clock, regraded, reports, outcome,
                   decoded, abilities, original, encoded, redecoded,
                   derivedTotals>>

ApplyCurve ==
    /\ scores # NoValue /\ curve # NoValue
    /\ grades = NoValue /\ error = NoError
    /\ LET r == applyCurve(scores, curve, clock)
       IN  grades' = r.value /\ error' = r.error
    /\ called' = "applyCurve"
    /\ UNCHANGED <<report, scores, pool, curve, options, compat, curved,
                   batch, config, target, probe, clock, regraded, reports, outcome,
                   decoded, abilities, original, encoded, redecoded,
                   derivedTotals>>

\* The caller calls applyCurve once more, on the same scores and curve.
ApplyCurveAgain ==
    /\ grades # NoValue /\ regraded = NoValue /\ curved = NoValue /\ error = NoError
    /\ LET r == applyCurve(scores, curve, clock)
       IN  regraded' = r.value /\ error' = r.error
    /\ called' = "applyCurve"
    /\ UNCHANGED <<report, scores, pool, curve, options, compat, grades, curved,
                   batch, config, target, probe, clock, reports, outcome,
                   decoded, abilities, original, encoded, redecoded,
                   derivedTotals>>

\* Time passes between two calls.
Tick ==
    /\ clock < MaxClock
    /\ clock' = clock + 1
    /\ UNCHANGED <<report, scores, pool, curve, options, compat, grades, curved,
                   error, batch, config, target, probe, called, regraded, reports, outcome,
                   decoded, abilities, original, encoded, redecoded,
                   derivedTotals>>

\* mergeIntoCurvedReport writing the letter grades into the report it is given.
MergeIntoCurvedReportInPlace ==
    /\ grades # NoValue /\ curved = NoValue /\ error = NoError
    /\ \E uuid \in CurvedReportIds :
          LET m == mergeIntoCurvedReport(report, grades, uuid, clock)
          IN  /\ target' = report /\ curved' = m.value /\ error' = m.error
              /\ report' = IF m.ok
                           THEN [report EXCEPT !.letter_grades = m.value.letter_grades]
                           ELSE report
    /\ called' = "mergeIntoCurvedReport"
    /\ UNCHANGED <<scores, pool, curve, options, compat, grades,
                   batch, config, probe, clock, regraded, reports, outcome,
                   decoded, abilities, original, encoded, redecoded,
                   derivedTotals>>

MergeIntoCurvedReport ==
    /\ grades # NoValue /\ curved = NoValue /\ error = NoError
    /\ \E r \in {report, OtherReport}, uuid \in CurvedReportIds :
          LET m == mergeIntoCurvedReport(r, grades, uuid, clock)
          IN  target' = r /\ curved' = m.value /\ error' = m.error
    /\ called' = "mergeIntoCurvedReport"
    /\ UNCHANGED <<report, scores, pool, curve, options, compat, grades,
                   batch, config, probe, clock, regraded, reports, outcome,
                   decoded, abilities, original, encoded, redecoded,
                   derivedTotals>>

Next ==
    \/ ExtractScores
    \/ LoadCurve
    \/ CheckCompatibility
    \/ ApplyCurve
    \/ ApplyCurveAgain
    \/ MergeIntoCurvedReport
    \/ Tick

Spec == Init /\ [][Next]_vars

\* --- computing a curve from a batch of scores

InitCurve ==
    /\ batch \in BatchInputs /\ config \in ConfigInputs
    /\ report = NoValue /\ scores = NoValue /\ pool = NoValue /\ curve = NoValue
    /\ options = NoValue /\ compat = NoValue /\ grades = NoValue /\ curved = NoValue
    /\ error = NoError /\ target = NoValue /\ probe = NoValue
    /\ called = "none" /\ clock = 0 /\ regraded = NoValue
    /\ reports = <<>> /\ outcome = NoValue
    /\ decoded = NoValue /\ abilities = NoValue
    /\ original = NoValue /\ encoded = NoValue /\ redecoded = NoValue
    /\ derivedTotals = NoValue

CreateScorePool ==
    /\ config # NoValue /\ pool = NoValue /\ error = NoError
    /\ LET r == createScorePool(batch, config)
       IN  pool' = r.value /\ error' = r.error
    /\ called' = "createScorePool"
    /\ UNCHANGED <<report, scores, curve, options, compat, grades, curved,
                   batch, config, target, probe, clock, regraded, reports, outcome,
                   decoded, abilities, original, encoded, redecoded,
                   derivedTotals>>

ComputeCurve ==
    /\ pool # NoValue /\ curve = NoValue
    /\ \E uuid \in CurveIds : curve' = computeCurve(pool, uuid, clock)
    /\ called' = "computeCurve"
    /\ UNCHANGED <<report, scores, pool, options, compat, grades, curved, error,
                   batch, config, target, probe, clock, regraded, reports, outcome,
                   decoded, abilities, original, encoded, redecoded,
                   derivedTotals>>

NextCurve == CreateScorePool \/ ComputeCurve

SpecCurve == InitCurve /\ [][NextCurve]_vars

\* --- one run of the full pipeline

InitPipeline ==
    /\ reports \in ReportBatches /\ config \in ConfigInputs
    /\ report = NoValue /\ scores = NoValue /\ pool = NoValue /\ curve = NoValue
    /\ options = NoValue /\ compat = NoValue /\ grades = NoValue /\ curved = NoValue
    /\ error = NoError /\ batch = <<>> /\ target = NoValue /\ probe = NoValue
    /\ called = "none" /\ clock = 0 /\ regraded = NoValue /\ outcome = NoValue
    /\ decoded = NoValue /\ abilities = NoValue
    /\ original = NoValue /\ encoded = NoValue /\ redecoded = NoValue
    /\ derivedTotals = NoValue

RunFullPipeline ==
    /\ config # NoValue /\ batch = <<>> /\ outcome = NoValue /\ error = NoError
    /\ called = "none"
    /\ \E salt \in UuidSalts :
          LET r == runFullPipeline(reports, config, CurveUuid(salt),
                                   CurvedUuids(salt), clock)
          IN  outcome' = r.value /\ error' = r.error
    /\ called' = "runFullPipeline"
    /\ UNCHANGED <<report, scores, pool, curve, options, compat, grades, curved,
                   batch, config, target, probe, clock, regraded, reports,
                   decoded, abilities, original, encoded, redecoded,
                   derivedTotals>>

NextPipeline == RunFullPipeline

SpecPipeline == InitPipeline /\ [][NextPipeline]_vars

\* --- every stage, on the inputs of the three specifications above

InitStages == Init \/ InitCurve \/ InitPipeline

NextStages == Next \/ NextCurve \/ NextPipeline

SpecStages == InitStages /\ [][NextStages]_vars

\* --- the ability scores of one decoded JSONScores

\* The problem ids of the fixture: "100010", "100020", "100031".
FixtureProblemIds == << <<1, 0, 0, 0, 1, 0>>, <<1, 0, 0, 0, 2, 0>>, <<1, 0, 0, 0, 3, 1>> >>

\* The task scores of the fixture's first two problems: 0.8, 0.75.
TaskScores == {Milli(800), Milli(750)}

\* All dimension keys present, each a score or null.
DimensionScores == [Range(DIMENSIONS) -> {None} \cup { Some(v) : v \in ScoreValues }]

\* The ProblemScore lists of up to MaxProblems problems.
ProblemScoreLists ==
    UNION { { [i \in 1..n |-> [problem_id       |-> FixtureProblemIds[((i - 1) % 3) + 1],
                               task_score       |-> ts[i],
                               dimension_scores |-> ds[i]]] :
                ts \in [1..n -> TaskScores], ds \in [1..n -> DimensionScores] } :
            n \in 0..MaxProblems }

\* The dimensions a ProblemScore has a score for.
TestedDimensions(q) ==
    SelectSeq(DIMENSIONS, LAMBDA dim : q.dimension_scores[dim] # None)

\* dimMap of the fixture, for the given problem scores.
DimMapOf(ps) ==
    [ map_id     |-> "d4e5f6a7-b8c9-4d0e-af12-345678901234",
      label      |-> "2024 Spring Assessment v2",
      created_at |-> [day |-> "2024-03-01", ms |-> 0],
      entries    |-> [i \in DOMAIN ps |->
                         [problem_id |-> ps[i].problem_id,
                          dimensions |-> TestedDimensions(ps[i])]] ]

\* jsonScoresStored of the fixture, decoded; generated_at is 14:30:00Z.
DecodedInputs ==
    { [ scores_id           |-> "f47ac10b-58cc-4372-a567-0e02b2c3d479",
        event_id            |-> "spring-2024-final",
        prompt_version_hash |-> "a3f8b2c",
        dimension_map       |-> DimMapOf(ps),
        generated_at        |-> [day |-> "2024-03-15", ms |-> 52200000],
        participant_id      |-> "student-0042",
        problem_scores      |-> ps ] : ps \in ProblemScoreLists }

InitAbility ==
    /\ decoded \in DecodedInputs /\ abilities = NoValue
    /\ original = NoValue /\ encoded = NoValue /\ redecoded = NoValue
    /\ derivedTotals = NoValue
    /\ report = NoValue /\ scores = NoValue /\ pool = NoValue /\ curve = NoValue
    /\ options = NoValue /\ compat = NoValue /\ grades = NoValue /\ curved = NoValue
    /\ error = NoError /\ batch = <<>> /\ config = NoValue /\ target = NoValue
    /\ probe = NoValue /\ called = "none" /\ clock = 0 /\ regraded = NoValue
    /\ reports = <<>> /\ outcome = NoValue

AbilityScores ==
    /\ decoded # NoValue /\ abilities = NoValue /\ error = NoError
    /\ LET r == computeAbilityScores(decoded)
       IN  abilities' = r.value /\ error' = r.error
    /\ called' = "ability_scores"
    /\ UNCHANGED <<report, scores, pool, curve, options, compat, grades, curved,
                   batch, config, target, probe, clock, regraded, reports, outcome,
                   decoded, original, encoded, redecoded,
                   derivedTotals>>

\* scores.totals, read from the decoded class instance
Totals ==
    /\ decoded # NoValue /\ derivedTotals = NoValue /\ error = NoError
    /\ LET r == totals(decoded)
       IN  derivedTotals' = r.value /\ error' = r.error
    /\ called' = "totals"
    /\ UNCHANGED <<report, scores, pool, curve, options, compat, grades, curved,
                   batch, config, target, probe, clock, regraded, reports, outcome,
                   decoded, abilities, original, encoded, redecoded>>

\* computeScoreTotals(scores), the standalone function
ComputeScoreTotals ==
    /\ decoded # NoValue /\ derivedTotals = NoValue /\ error = NoError
    /\ LET r == computeScoreTotals(decoded)
       IN  derivedTotals' = r.value /\ error' = r.error
    /\ called' = "computeScoreTotals"
    /\ UNCHANGED <<report, scores, pool, curve, options, compat, grades, curved,
                   batch, config, target, probe, clock, regraded, reports, outcome,
                   decoded, abilities, original, encoded, redecoded>>

NextAbility == AbilityScores \/ Totals \/ ComputeScoreTotals

SpecAbility == InitAbility /\ [][NextAbility]_vars

\* --- encoding a decoded value and decoding it again

\* curved_at of the fixture, 15:00:00Z, and an instant with milliseconds.
CurvedAtInputs == { [day |-> "2024-03-15", ms |-> 54000000],
                    [day |-> "2024-03-15", ms |-> 54000500] }

\* A decoded CurvedScores of the decoded scores d, every grade being g.
CurvedScoresOf(d, at, g) ==
    [ curved_scores_id |-> "c1d2e3f4-a5b6-47c8-9d0e-f12345678901",
      source           |-> d,
      applied_curve_id |-> "b2c3d4e5-f6a7-48b9-0c1d-e23456789012",
      curved_at        |-> at,
      problem_grades   |-> [i \in DOMAIN d.problem_scores |->
          [ problem_id       |-> d.problem_scores[i].problem_id,
            task_grade       |-> g,
            dimension_grades |-> [dim \in Range(DIMENSIONS) |->
                IF d.problem_scores[i].dimension_scores[dim] = None
                THEN None ELSE Some(g)] ]],
      ability_grades   |-> [dim \in Range(DIMENSIONS) |-> g],
      total_grades     |-> [ total_problem_grade |-> g,
                             total_ability_grade |-> g,
                             final_total_grade   |-> g ] ]

CurvedScoresInputs(d) == { CurvedScoresOf(d, at, g) : at \in CurvedAtInputs, g \in {"A", "D"} }

InitCodec ==
    /\ decoded \in DecodedInputs /\ abilities = NoValue
    /\ original = NoValue /\ encoded = NoValue /\ redecoded = NoValue
    /\ derivedTotals = NoValue
    /\ report = NoValue /\ scores = NoValue /\ pool = NoValue /\ curve = NoValue
    /\ options = NoValue /\ compat = NoValue /\ grades = NoValue /\ curved = NoValue
    /\ error = NoError /\ batch = <<>> /\ config = NoValue /\ target = NoValue
    /\ probe = NoValue /\ called = "none" /\ clock = 0 /\ regraded = NoValue
    /\ reports = <<>> /\ outcome = NoValue

EncodeJSONScores ==
    /\ decoded # NoValue /\ original = NoValue
    /\ original' = decoded
    /\ encoded' = encodeJSONScores(decoded)
    /\ called' = "encodeJSONScores"
    /\ UNCHANGED <<report, scores, pool, curve, options, compat, grades, curved, error,
                   batch, config, target, probe, clock, regraded, reports, outcome,
                   decoded, abilities, redecoded,
                   derivedTotals>>

EncodeCurvedScores ==
    /\ decoded # NoValue /\ original = NoValue
    /\ \E c \in CurvedScoresInputs(decoded) :
          original' = c /\ encoded' = encodeCurvedScores(c)
    /\ called' = "encodeCurvedScores"
    /\ UNCHANGED <<report, scores, pool, curve, options, compat, grades, curved, error,
                   batch, config, target, probe, clock, regraded, reports, outcome,
                   decoded, abilities, redecoded,
                   derivedTotals>>

DecodeJSONScores ==
    /\ called = "encodeJSONScores" /\ redecoded = NoValue /\ error = NoError
    /\ LET r == decodeJSONScores(encoded)
       IN  redecoded' = r.value /\ error' = r.error
    /\ called' = "decodeJSONScores"
    /\ UNCHANGED <<report, scores, pool, curve, options, compat, grades, curved,
                   batch, config, target, probe, clock, regraded, reports, outcome,
                   decoded, abilities, original, encoded, derivedTotals>>

DecodeCurvedScores ==
    /\ called = "encodeCurvedScores" /\ redecoded = NoValue /\ error = NoError
    /\ LET r == decodeCurvedScores(encoded)
       IN  redecoded' = r.value /\ error' = r.error
    /\ called' = "decodeCurvedScores"
    /\ UNCHANGED <<report, scores, pool, curve, options, compat, grades, curved,
                   batch, config, target, probe, clock, regraded, reports, outcome,
                   decoded, abilities, original, encoded, derivedTotals>>

NextCodec ==
    \/ EncodeJSONScores
    \/ DecodeJSONScores
    \/ EncodeCurvedScores
    \/ DecodeCurvedScores

SpecCodec == InitCodec /\ [][NextCodec]_vars

\* --- one grade lookup

InitGrade ==
    /\ probe \in ProbeInputs
    /\ report = NoValue /\ scores = NoValue /\ pool = NoValue /\ curve = NoValue
    /\ options = NoValue /\ compat = NoValue /\ grades = NoValue /\ curved = NoValue
    /\ error = NoError /\ batch = <<>> /\ config = NoValue /\ target = NoValue
    /\ called = "none" /\ clock = 0 /\ regraded = NoValue
    /\ reports = <<>> /\ outcome = NoValue
    /\ decoded = NoValue /\ abilities = NoValue
    /\ original = NoValue /\ encoded = NoValue /\ redecoded = NoValue
    /\ derivedTotals = NoValue

GetGrade ==
    /\ probe # NoValue /\ probe.grade = "none"
    /\ probe' = [probe EXCEPT !.grade = getGrade(probe.score, probe.thresholds)]
    /\ called' = "getGrade"
    /\ UNCHANGED <<report, scores, pool, curve, options, compat, grades, curved,
                   error, batch, config, target, clock, regraded, reports, outcome,
                   decoded, abilities, original, encoded, redecoded,
                   derivedTotals>>

NextGrade == GetGrade

SpecGrade == InitGrade /\ [][NextGrade]_vars

\* ================================================================ properties

\* The ids a scores object carries, and whether they are the curve's.
ScoredProblemIds(sc) == { sc.problem_scores[i].problem_id : i \in DOMAIN sc.problem_scores }
ScoredDimensionIds(sc) == { sc.ability_scores[i].dimension_id : i \in DOMAIN sc.ability_scores }
IdSetsDiffer(sc, cv) ==
    \/ ScoredProblemIds(sc) # Range(cv.problem_ids)
    \/ ScoredDimensionIds(sc) # Range(cv.dimension_ids)

\* A threshold triple in descending order.
Descending(t) == Len(t) = 3 /\ t[1] >= t[2] /\ t[2] >= t[3]

\* C1: whenever the scores and a well-formed curve disagree on their problem
\* ids or their dimension ids (or a compatibility check of the two has come
\* back incompatible), no letter grades exist, and the applyCurve call that was
\* made on them threw 'Cannot apply curve'.
C1_IncompatibleCurveRaises ==
    ( /\ scores # NoValue /\ curve # NoValue /\ ValidCurve(curve)
      /\ \/ IdSetsDiffer(scores, curve)
         \/ (compat # NoValue /\ compat.status = "incompatible") )
    => /\ grades = NoValue
       /\ called = "applyCurve" => error.kind = "Cannot apply curve"

C1_Witness ==
    /\ called = "applyCurve"
    /\ compat # NoValue /\ compat.status = "incompatible"
    /\ error.kind = "Cannot apply curve" /\ Len(error.reasons) > 0
    /\ grades = NoValue

CurveProblemTriples(cv) == { cv.problem_curves[i].problem_id : i \in DOMAIN cv.problem_curves }
CurveDimensionTriples(cv) == { cv.ability_curves[i].dimension_id : i \in DOMAIN cv.ability_curves }

\* C3: whenever the scores hold a problem or a dimension for which the curve
\* holds no threshold triple, grading has failed: no letter grades exist.
C3_MissingTripleFails ==
    ( /\ scores # NoValue /\ curve # NoValue
      /\ \/ ~(ScoredProblemIds(scores) \subseteq CurveProblemTriples(curve))
         \/ ~(ScoredDimensionIds(scores) \subseteq CurveDimensionTriples(curve)) )
    => grades = NoValue

\* Every threshold triple of a curve.
AllThresholdTriples(cv) ==
    { cv.totals.total_problem.thresholds, cv.totals.total_ability.thresholds,
      cv.totals.final_total.thresholds }
    \cup { cv.ability_curves[i].thresholds : i \in DOMAIN cv.ability_curves }
    \cup { cv.problem_curves[i].thresholds : i \in DOMAIN cv.problem_curves }

\* C4: every threshold triple of a curve computed from a non-empty pool (the
\* three totals, each dimension, each problem) satisfies A >= B >= C.
C4_ThresholdsDescending ==
    (called = "computeCurve" /\ Len(pool.scores) > 0)
    => \A t \in AllThresholdTriples(curve) : Descending(t)

C4_Witness ==
    /\ called = "computeCurve" /\ Len(pool.scores) > 1
    /\ \E t \in AllThresholdTriples(curve) : t[1] > t[2] /\ t[2] > t[3] /\ t[3] > 0
    /\ Len(curve.problem_curves) > 0 /\ Len(curve.ability_curves) > 0

\* The ids that the reasons of a CompatibilityResult report for one side
\* (the curve's ids the scores miss, or the scores' ids the curve misses).
ReasonIds(c, side, kind) ==
    IF c.status # "incompatible" THEN {}
    ELSE { c.reasons[i].id :
             i \in { j \in DOMAIN c.reasons :
                       c.reasons[j].side = side /\ c.reasons[j].kind = kind } }

\* C5: a compatibility check (language variants not allowed) of scores and a
\* well-formed curve whose id sets differ returns incompatible, and its reasons
\* are exactly one for each id only the curve has and one for each id only the
\* scores have, the two directions apart, no reason twice.
C5_OneReasonPerMismatch ==
    ( /\ called = "checkCompatibility" /\ ValidCurve(curve)
      /\ ~AllowLanguageDifference(options)
      /\ IdSetsDiffer(scores, curve) )
    => LET curveOnlyP  == Range(curve.problem_ids) \ ScoredProblemIds(scores)
           scoresOnlyP == ScoredProblemIds(scores) \ Range(curve.problem_ids)
           curveOnlyD  == Range(curve.dimension_ids) \ ScoredDimensionIds(scores)
           scoresOnlyD == ScoredDimensionIds(scores) \ Range(curve.dimension_ids)
       IN  /\ compat # NoValue
           /\ compat.status = "incompatible"
           /\ ReasonIds(compat, "curve", "problem") = curveOnlyP
           /\ ReasonIds(compat, "scores", "problem") = scoresOnlyP
           /\ ReasonIds(compat, "curve", "dimension") = curveOnlyD
           /\ ReasonIds(compat, "scores", "dimension") = scoresOnlyD
           /\ Len(compat.reasons) = Cardinality(curveOnlyP) + Cardinality(scoresOnlyP)
                                    + Cardinality(curveOnlyD) + Cardinality(scoresOnlyD)

C5_Witness ==
    /\ called = "checkCompatibility" /\ compat # NoValue
    /\ ~AllowLanguageDifference(options)
    /\ ReasonIds(compat, "curve", "problem") # {}
    /\ ReasonIds(compat, "scores", "problem") # {}
    /\ ReasonIds(compat, "curve", "dimension") # {}

\* C6: a compatibility check of scores and a well-formed curve with the same
\* problem ids and dimension ids, where the curve's prompt version hash is not
\* that of the report the scores come from, returns requires_override with the
\* prompt-version mismatch flag set.
C6_ProvenanceRequiresOverride ==
    ( /\ called = "checkCompatibility" /\ ValidCurve(curve)
      /\ ~IdSetsDiffer(scores, curve)
      /\ curve.prompt_version_hash # report.prompt_version_hash )
    => /\ compat # NoValue
       /\ compat.status = "requires_override"
       /\ compat.differences.prompt_version_mismatch

\* Two ids that differ in their last digit only.
DifferOnlyInLastDigit(x, y) ==
    /\ Len(x) = Len(y) /\ x # y
    /\ \A i \in 1..(Len(x) - 1) : x[i] = y[i]

\* C7: for a curve problem and a scores problem that differ only in the last
\* digit, a compatibility check with the language option set has no reason
\* about either of them, and a check without it has a reason for each of the
\* two that the other side lacks.
C7_LanguageVariantOption ==
    (called = "checkCompatibility" /\ compat # NoValue)
    => \A x \in Range(curve.problem_ids), y \in ScoredProblemIds(scores) :
          DifferOnlyInLastDigit(x, y)
          => IF AllowLanguageDifference(options)
             THEN /\ x \notin ReasonIds(compat, "curve", "problem")
                  /\ y \notin ReasonIds(compat, "scores", "problem")
             ELSE /\ x \notin ScoredProblemIds(scores)
                     => x \in ReasonIds(compat, "curve", "problem")
                  /\ y \notin Range(curve.problem_ids)
                     => y \in ReasonIds(compat, "scores", "problem")

C7_Witness ==
    /\ called = "checkCompatibility" /\ compat # NoValue
    /\ AllowLanguageDifference(options)
    /\ compat.status = "compatible"
    /\ \E x \in Range(curve.problem_ids), y \in ScoredProblemIds(scores) :
          /\ DifferOnlyInLastDigit(x, y)
          /\ x \notin ScoredProblemIds(scores)
          /\ y \notin Range(curve.problem_ids)

\* C8: a compatibility check of scores and a well-formed curve throws nothing
\* and returns a result, and the result reports every mismatch: incompatible
\* when the id sets differ (language variants not allowed), and not compatible
\* when the curve's prompt version hash is not that of the scores' report.
C8_MismatchesReturnedNotRaised ==
    (called = "checkCompatibility" /\ ValidCurve(curve))
    => /\ error = NoError
       /\ compat # NoValue
       /\ (IdSetsDiffer(scores, curve) /\ ~AllowLanguageDifference(options))
          => compat.status = "incompatible"
       /\ curve.prompt_version_hash # report.prompt_version_hash
          => compat.status # "compatible"

\* What holds of C8: the check throws nothing on well-formed inputs, whatever
\* their mismatches, and reports the differing id sets in its result.
CheckCompatibilityReturns ==
    (called = "checkCompatibility" /\ ValidCurve(curve))
    => /\ error = NoError
       /\ compat # NoValue
       /\ compat.status \in {"compatible", "incompatible"}
       /\ (IdSetsDiffer(scores, curve) /\ ~AllowLanguageDifference(options))
          => compat.status = "incompatible"

\* The (problem, dimension) pairs scored in a scores object, and those graded
\* in a grade structure (its dimension_details, when it has them).
ScoredPairs(sc) ==
    UNION { { <<sc.problem_scores[i].problem_id,
                sc.problem_scores[i].dimension_scores[k].dimension_id>> :
                k \in DOMAIN sc.problem_scores[i].dimension_scores } :
            i \in DOMAIN sc.problem_scores }
GradedPairs(g) ==
    IF "dimension_details" \notin DOMAIN g THEN {}
    ELSE UNION { { <<x, d>> : d \in DOMAIN g.dimension_details[x] } :
                 x \in DOMAIN g.dimension_details }

\* C9: the grades applyCurve returns mirror the scores: the three total
\* grades, one grade per scored dimension, one per scored problem, and one per
\* scored (problem, dimension) pair, nothing missing and nothing added.
C9_GradesMirrorScores ==
    (called = "applyCurve" /\ grades # NoValue)
    => /\ DOMAIN grades.total_grades =
             {"total_problem_grade", "total_ability_grade", "final_total_grade"}
       /\ Len(grades.ability_grades) = Len(scores.ability_scores)
       /\ \A i \in DOMAIN grades.ability_grades :
             grades.ability_grades[i].dimension_id = scores.ability_scores[i].dimension_id
       /\ Len(grades.problem_grades) = Len(scores.problem_scores)
       /\ \A i \in DOMAIN grades.problem_grades :
             grades.problem_grades[i].problem_id = scores.problem_scores[i].problem_id
       /\ GradedPairs(grades) = ScoredPairs(scores)

\* What holds of C9: totals, dimensions and problems are mirrored.
GradesMirrorTotalsAbilitiesProblems ==
    (called = "applyCurve" /\ grades # NoValue)
    => /\ DOMAIN grades.total_grades =
             {"total_problem_grade", "total_ability_grade", "final_total_grade"}
       /\ [i \in DOMAIN grades.ability_grades |-> grades.ability_grades[i].dimension_id]
            = [i \in DOMAIN scores.ability_scores |-> scores.ability_scores[i].dimension_id]
       /\ [i \in DOMAIN grades.problem_grades |-> grades.problem_grades[i].problem_id]
            = [i \in DOMAIN scores.problem_scores |-> scores.problem_scores[i].problem_id]

\* C10: letter grades carry the id of the scores they were computed from (which
\* is the id of the report the scores were extracted from) and the id of the
\* curve applied; a curved report carries the id of the report it was merged
\* from, which is the one its grades were computed from, and the curve's id.
C10_ResultReferencesSourceAndCurve ==
    /\ grades # NoValue
       => /\ grades.source_scores_id = scores.source_report_id
          /\ scores.source_report_id = report.report_id
          /\ grades.curve_id = curve.curve_id
    /\ curved # NoValue
       => /\ curved.source_report_id = target.report_id
          /\ curved.source_report_id = grades.source_scores_id
          /\ curved.applied_curve_id = curve.curve_id

C10_Witness ==
    /\ called = "mergeIntoCurvedReport" /\ curved # NoValue
    /\ curved.source_report_id = "uuid-r1"
    /\ curved.applied_curve_id = "uuid-c2"
    /\ grades.curve_id = "uuid-c2"

\* C11: the letter grades of a second applyCurve call on the same scores and
\* the same curve equal those of the first call in every field.
C11_ApplyCurveIdempotent ==
    regraded # NoValue => regraded = grades

\* What holds of C11: the two results agree in every field but computed_at.
RegradedEqualButTimestamp ==
    regraded # NoValue
    => /\ [regraded EXCEPT !.computed_at = grades.computed_at] = grades
       /\ regraded.computed_at >= grades.computed_at

\* The positions of the raw reports that pass ReportJSONSchema.
ValidPositions == { i \in DOMAIN reports : ValidReportJSON(reports[i]) }

\* The config is that of the reports: every valid report is of the config's
\* event and has the config's problems and dimensions.
ConfigMatchesReports ==
    \A i \in ValidPositions :
        /\ reports[i].event_id = config.event_id
        /\ { reports[i].problems[k].problem_id : k \in DOMAIN reports[i].problems }
             = Range(config.problem_ids)
        /\ { reports[i].abilities[k].dimension_id : k \in DOMAIN reports[i].abilities }
             = Range(config.dimension_ids)

Kept(before, after) == before # NoValue => after = before

\* C12: no call of a stage (validate, extract, create pool, compute curve,
\* check compatibility, apply curve, merge, full pipeline) changes an object
\* that exists when it is called: every argument, and every earlier result,
\* is field for field what it was, and the result is held apart from them.
C12_StagesKeepTheirInputs ==
    [][ /\ Kept(report, report') /\ Kept(scores, scores')
        /\ Kept(config, config') /\ Kept(pool, pool') /\ Kept(curve, curve')
        /\ Kept(compat, compat') /\ Kept(grades, grades')
        /\ Kept(target, target') /\ Kept(curved, curved')
        /\ Kept(regraded, regraded') /\ Kept(outcome, outcome')
        /\ batch' = batch /\ reports' = reports ]_vars

C12_Witness ==
    /\ called = "mergeIntoCurvedReport" /\ curved # NoValue
    /\ target = report /\ report.letter_grades = NoValue
    /\ curved.letter_grades # NoValue
    /\ curved.problems = report.problems

\* C14: a score pool is only created when every member has scores for exactly
\* the pool's problems and exactly the pool's dimensions; otherwise
\* createScorePool rejects the input and no pool exists.
C14_PoolMembersShareSets ==
    pool # NoValue
    => \A i \in DOMAIN pool.scores :
          /\ ScoredProblemIds(pool.scores[i]) = Range(pool.problem_ids)
          /\ ScoredDimensionIds(pool.scores[i]) = Range(pool.dimension_ids)

\* No participant of the pool has a score for the problem / the dimension.
NoProblemValues(p, pid) == \A i \in DOMAIN p.scores : pid \notin ScoredProblemIds(p.scores[i])
NoDimensionValues(p, did) == \A i \in DOMAIN p.scores : did \notin ScoredDimensionIds(p.scores[i])

\* C15: computeCurve returns a curve, without an error, and every problem and
\* every dimension of the pool for which the pool holds no value has the
\* thresholds [0.8, 0.5, 0.2] in that curve.
C15_EmptyCategoryFallsBack ==
    (called = "computeCurve" /\ pool # NoValue)
    => /\ curve # NoValue /\ error = NoError
       /\ \A pid \in Range(pool.problem_ids) :
             NoProblemValues(pool, pid)
             => /\ \E k \in DOMAIN curve.problem_curves :
                      curve.problem_curves[k].problem_id = pid
                /\ \A k \in DOMAIN curve.problem_curves :
                      curve.problem_curves[k].problem_id = pid
                      => curve.problem_curves[k].thresholds = <<Milli(800), Milli(500), Milli(200)>>
       /\ \A did \in Range(pool.dimension_ids) :
             NoDimensionValues(pool, did)
             => /\ \E k \in DOMAIN curve.ability_curves :
                      curve.ability_curves[k].dimension_id = did
                /\ \A k \in DOMAIN curve.ability_curves :
                      curve.ability_curves[k].dimension_id = did
                      => curve.ability_curves[k].thresholds = <<Milli(800), Milli(500), Milli(200)>>

C15_Witness ==
    /\ called = "computeCurve" /\ curve # NoValue
    /\ NoProblemValues(pool, P005000) /\ P005000 \in Range(pool.problem_ids)
    /\ NoDimensionValues(pool, "iterative-refinement")
    /\ "iterative-refinement" \in Range(pool.dimension_ids)
    /\ curve.problem_curves[2].thresholds = <<Milli(800), Milli(500), Milli(200)>>
    /\ curve.ability_curves[3].thresholds = <<Milli(800), Milli(500), Milli(200)>>

\* The score v rounded to three decimals.
ToThreeDecimals(v) == Milli((2 * v + Grain) \div (2 * Grain))

\* The three thresholds are the one value v, to three decimals.
Collapsed(t, v) == t = <<ToThreeDecimals(v), ToThreeDecimals(v), ToThreeDecimals(v)>>

\* cv is the curve of the one participant whose totals, ability scores and
\* problem scores are given: sample size 1, and the thresholds of every
\* category the participant has a value for are that value three times.
SingleParticipantCurve(cv, totalScores, abilityScores, problemScores) ==
    /\ cv.sample_size = 1
    /\ Collapsed(cv.totals.total_problem.thresholds, totalScores.total_problem_score)
    /\ Collapsed(cv.totals.total_ability.thresholds, totalScores.total_ability_score)
    /\ Collapsed(cv.totals.final_total.thresholds, totalScores.final_total_score)
    /\ \A k \in DOMAIN cv.ability_curves : \A j \in DOMAIN abilityScores :
          cv.ability_curves[k].dimension_id = abilityScores[j].dimension_id
          => Collapsed(cv.ability_curves[k].thresholds, abilityScores[j].score)
    /\ \A k \in DOMAIN cv.problem_curves : \A j \in DOMAIN problemScores :
          cv.problem_curves[k].problem_id = problemScores[j].problem_id
          => Collapsed(cv.problem_curves[k].thresholds, problemScores[j].objective_score)

\* C16: computeCurve on a pool of one participant returns a curve, without an
\* error, of sample size 1 whose thresholds are the participant's values; and
\* a run of the full pipeline on one valid report and its config returns one
\* curved report, no error, and such a curve. A threshold is the value to the
\* three decimals thresholds are rounded to.
C16_SingleParticipant ==
    /\ (called = "computeCurve" /\ pool # NoValue /\ Len(pool.scores) = 1)
       => /\ curve # NoValue /\ error = NoError
          /\ SingleParticipantCurve(curve, pool.scores[1].totals,
                 pool.scores[1].ability_scores, pool.scores[1].problem_scores)
    /\ (called = "runFullPipeline" /\ Len(reports) = 1 /\ ValidPositions = {1}
            /\ ConfigMatchesReports)
       => /\ outcome # NoValue /\ error = NoError
          /\ Len(outcome.curvedReports) = 1 /\ Len(outcome.errors) = 0
          /\ SingleParticipantCurve(outcome.curve, reports[1].totals,
                 reports[1].abilities, reports[1].problems)

C16_Witness ==
    /\ called = "runFullPipeline" /\ Len(reports) = 1 /\ outcome # NoValue
    /\ Len(outcome.curvedReports) = 1
    /\ outcome.curve.sample_size = 1
    /\ outcome.curve.totals.final_total.thresholds
         = <<reports[1].totals.final_total_score, reports[1].totals.final_total_score,
             reports[1].totals.final_total_score>>
    /\ outcome.curvedReports[1].source_report_id = reports[1].report_id

\* C19: a call of mergeIntoCurvedReport with letter grades whose
\* source_scores_id is not the report's report_id throws, and returns no
\* curved report.
C19_MergeRejectsForeignGrades ==
    (called = "mergeIntoCurvedReport" /\ grades.source_scores_id # target.report_id)
    => /\ curved = NoValue
       /\ error # NoError
       /\ error.kind \in {"Grades source_scores_id doesn't match report_id", "ZodError"}

C19_Witness ==
    /\ called = "mergeIntoCurvedReport"
    /\ grades.source_scores_id # target.report_id
    /\ error.kind = "Grades source_scores_id doesn't match report_id"
    /\ curved = NoValue

\* C20: the sample_size of a computed curve is the number of participants of
\* the pool it was computed from.
C20_SampleSizeIsPoolSize ==
    (called = "computeCurve" /\ curve # NoValue)
    => curve.sample_size = Len(pool.scores)

C20_Witness ==
    /\ called = "computeCurve" /\ curve # NoValue
    /\ Len(pool.scores) = 3 /\ curve.sample_size = 3
    /\ Len(pool.problem_ids) = 2

\* The problems of the decoded scores that have a score for the dimension,
\* and the sum of those scores.
Contributors(dim) ==
    { i \in DOMAIN decoded.problem_scores :
        decoded.problem_scores[i].dimension_scores[dim] # None }
ContributedSum(dim) ==
    SumSeq([i \in DOMAIN decoded.problem_scores |->
               IF i \in Contributors(dim)
               THEN decoded.problem_scores[i].dimension_scores[dim].value ELSE 0])

\* C17: the ability score of a dimension that some problem has a score for is
\* the sum of the dimension's scores over the problems that have one, divided
\* by the number of those problems; and it is the ability score of the same
\* scores without any one problem whose score for the dimension is null.
C17_AbilityIsMeanOfTestingProblems ==
    called = "ability_scores"
    => \A dim \in Range(DIMENSIONS) :
          Contributors(dim) # {}
          => /\ abilities # NoValue
             /\ abilities[dim].num * Cardinality(Contributors(dim))
                  = abilities[dim].den * ContributedSum(dim)
             /\ \A j \in DOMAIN decoded.problem_scores \ Contributors(dim) :
                   LET rest == [decoded EXCEPT !.problem_scores =
                                   [i \in 1..(Len(@) - 1) |-> IF i < j THEN @[i] ELSE @[i + 1]]]
                   IN  computeAbilityScores(rest).value[dim] = abilities[dim]

C17_Witness ==
    /\ called = "ability_scores" /\ abilities # NoValue
    /\ Len(decoded.problem_scores) = 2
    /\ decoded.problem_scores[1].dimension_scores["Discovery-Self-Understanding"] = Some(One)
    /\ decoded.problem_scores[2].dimension_scores["Discovery-Self-Understanding"] = None
    /\ decoded.problem_scores[2].dimension_scores["Expression-Translation"] = Some(0)
    /\ abilities["Discovery-Self-Understanding"] = [num |-> One, den |-> 1]

\* C18: when no problem of the decoded scores has a score for some dimension,
\* the ability_scores getter throws and returns no ability scores.
C18_NoContributorFails ==
    (called = "ability_scores" /\ \E dim \in Range(DIMENSIONS) : Contributors(dim) = {})
    => abilities = NoValue /\ error # NoError

\* C21: a compatibility check of scores and a well-formed curve that have the
\* same problem ids and the same dimension ids, the curve being of the
\* report's prompt version, returns the status compatible and throws nothing.
C21_MatchingInputsCompatible ==
    ( /\ called = "checkCompatibility"
      /\ ValidCurve(curve)
      /\ ~IdSetsDiffer(scores, curve)
      /\ curve.prompt_version_hash = report.prompt_version_hash )
    => /\ error = NoError
       /\ compat # NoValue
       /\ compat.status = "compatible"
       /\ "reasons" \notin DOMAIN compat

C21_Witness ==
    /\ called = "checkCompatibility"
    /\ ~IdSetsDiffer(scores, curve)
    /\ Len(scores.problem_scores) = 2
    /\ curve.prompt_version_hash = report.prompt_version_hash
    /\ compat # NoValue /\ compat.status = "compatible"

\* The fields the JSONScores class declares.
DeclaredJSONScoresFields ==
    { "scores_id", "event_id", "prompt_version_hash", "dimension_map",
      "generated_at", "participant_id", "problem_scores" }

SixDigitsWithLanguage(pid) ==
    /\ Len(pid) = 6
    /\ \A i \in DOMAIN pid : pid[i] \in 0..9
    /\ pid[6] \in {0, 1}

\* C23: a report that has a problem id which is not six decimal digits with
\* sixth digit 0 or 1 is rejected by the validation of the reports: a run of
\* the full pipeline that returns has a 'Report' error for its position.
C23_ProblemIdSixDigitsLanguage ==
    (called = "runFullPipeline" /\ outcome # NoValue)
    => \A i \in DOMAIN reports :
          (\E k \in DOMAIN reports[i].problems :
              ~SixDigitsWithLanguage(reports[i].problems[k].problem_id))
          => \E e \in DOMAIN outcome.errors :
                /\ outcome.errors[e].stage = "Report"
                /\ outcome.errors[e].index = i - 1

\* C24: a computed curve has a threshold triple for each of the three totals,
\* for each dimension and for each problem id that occurs in the scores of a
\* participant of the pool.
C24_CurveCoversPooledIds ==
    (called = "computeCurve" /\ curve # NoValue)
    => /\ Len(curve.totals.total_problem.thresholds) = 3
       /\ Len(curve.totals.total_ability.thresholds) = 3
       /\ Len(curve.totals.final_total.thresholds) = 3
       /\ \A i \in DOMAIN pool.scores :
             /\ \A did \in ScoredDimensionIds(pool.scores[i]) :
                   \E k \in DOMAIN curve.ability_curves :
                       /\ curve.ability_curves[k].dimension_id = did
                       /\ Len(curve.ability_curves[k].thresholds) = 3
             /\ \A pid \in ScoredProblemIds(pool.scores[i]) :
                   \E k \in DOMAIN curve.problem_curves :
                       /\ curve.problem_curves[k].problem_id = pid
                       /\ Len(curve.problem_curves[k].thresholds) = 3

\* What holds of C24: the curve has a triple for each total and for each
\* dimension and problem of the pool's own lists, those of the config.
CurveCoversConfiguredIds ==
    (called = "computeCurve" /\ curve # NoValue)
    => /\ Len(curve.totals.total_problem.thresholds) = 3
       /\ Len(curve.totals.total_ability.thresholds) = 3
       /\ Len(curve.totals.final_total.thresholds) = 3
       /\ \A did \in Range(pool.dimension_ids) :
             \E k \in DOMAIN curve.ability_curves :
                 /\ curve.ability_curves[k].dimension_id = did
                 /\ Len(curve.ability_curves[k].thresholds) = 3
       /\ \A pid \in Range(pool.problem_ids) :
             \E k \in DOMAIN curve.problem_curves :
                 /\ curve.problem_curves[k].problem_id = pid
                 /\ Len(curve.problem_curves[k].thresholds) = 3

\* C25: every threshold triple of a curve that applyCurve has accepted and
\* graded with, like every triple of a computed curve, satisfies A >= B >= C.
C25_CurveTriplesDescending ==
    /\ (called = "applyCurve" /\ grades # NoValue)
       => \A t \in AllThresholdTriples(curve) : Descending(t)
    /\ (called = "computeCurve" /\ curve # NoValue /\ Len(pool.scores) > 0)
       => \A t \in AllThresholdTriples(curve) : Descending(t)

\* Every valid report is of the config's event.
EventsMatchConfig == \A i \in ValidPositions : reports[i].event_id = config.event_id

\* C26: a run of the full pipeline returns a result exactly when at least one
\* report is valid and every valid report is of the config's event; otherwise
\* the call throws and returns nothing. The errors of a returned result are
\* those of the validation of a report and of the curving of a report only.
C26_PipelineReturnsOrRaises ==
    called = "runFullPipeline"
    => /\ outcome # NoValue <=> (ValidPositions # {} /\ EventsMatchConfig)
       /\ outcome = NoValue <=> error # NoError
       /\ outcome # NoValue
          => \A k \in DOMAIN outcome.errors :
                outcome.errors[k].stage \in {"Report", "Curving report"}
       /\ (ValidPositions # {} /\ ~EventsMatchConfig)
          => error.kind = "Score pool event mismatch"
       /\ ValidPositions = {} => error.kind = "No valid reports to process"

C26_Witness ==
    /\ called = "runFullPipeline"
    /\ Len(reports) = 3 /\ ValidPositions = {1, 2, 3}
    /\ reports[1].event_id = config.event_id
    /\ reports[3].event_id # config.event_id
    /\ outcome = NoValue
    /\ error.kind = "Score pool event mismatch"

\* Every grade of the letter grades lg is g.
AllGrades(lg, g) ==
    /\ lg.totals.total_problem = g
    /\ lg.totals.total_ability = g
    /\ lg.totals.final_total = g
    /\ \A did \in DOMAIN lg.abilities : lg.abilities[did] = g
    /\ \A pid \in DOMAIN lg.problems : lg.problems[pid] = g

\* Every score of the report has at most three decimals.
ThreeDecimals(r) ==
    /\ \A tot \in DOMAIN r.totals : r.totals[tot] % Grain = 0
    /\ \A i \in DOMAIN r.abilities : r.abilities[i].score % Grain = 0
    /\ \A i \in DOMAIN r.problems : r.problems[i].objective_score % Grain = 0

\* C27: the curved report of a run of the full pipeline on a single report,
\* whose curve is computed from that report alone, has the grade A for every
\* total, every dimension and every problem.
C27_SingleParticipantAllA ==
    (called = "runFullPipeline" /\ Len(reports) = 1 /\ outcome # NoValue)
    => \A k \in DOMAIN outcome.curvedReports :
          AllGrades(outcome.curvedReports[k].letter_grades, "A")

\* What holds of C27: the grades are all A when no score of the report has
\* more than three decimals.
SingleParticipantAllAToThreeDecimals ==
    (called = "runFullPipeline" /\ Len(reports) = 1 /\ outcome # NoValue
        /\ ThreeDecimals(reports[1]))
    => \A k \in DOMAIN outcome.curvedReports :
          AllGrades(outcome.curvedReports[k].letter_grades, "A")

\* Comparisons of sqrt(w) with an integer, for an integer w >= 0:
\* l <= sqrt(w), sqrt(w) < u, sqrt(w) <= u, l < sqrt(w).
AtMostSqrt(l, w) == l <= 0 \/ l * l <= w
SqrtBelow(w, u) == u > 0 /\ w < u * u
SqrtAtMost(w, u) == u >= 0 /\ w <= u * u
BelowSqrt(l, w) == l < 0 \/ l * l < w

\* k thousandths is x clamped to [0,1] and rounded to three decimals, for
\*   x = mean + sigma (sign 1), x = mean (sign 0), x = mean - sigma (sign -1)
\* of n > 0 values of sum S and sum of squares Q, sigma being the population
\* standard deviation: with m = n * Grain and W = 4 (n Q - S S), x in
\* thousandths is (2 S + sign * sqrt(W)) / (2 m), and k is the integer of
\* 0..1000 with k - 1/2 <= x (unless k = 0) and x < k + 1/2 (unless k = 1000).
IsRounded(k, sign, n, S, Q) ==
    LET m  == n * Grain
        W  == 4 * (n * Q - S * S)
        lo == (2 * k - 1) * m - 2 * S
        hi == (2 * k + 1) * m - 2 * S
    IN  /\ k \in 0..Thousand
        /\ k > 0
           => CASE sign = 1  -> AtMostSqrt(lo, W)
                [] sign = 0  -> lo <= 0
                [] sign = -1 -> SqrtAtMost(W, 0 - lo)
        /\ k < Thousand
           => CASE sign = 1  -> SqrtBelow(W, hi)
                [] sign = 0  -> hi > 0
                [] sign = -1 -> BelowSqrt(0 - hi, W)

\* The triple t is (mean + sigma, mean, mean - sigma), each clamped and
\* rounded to three decimals, of the n > 0 values of sum S and sum of squares Q.
IsStdDevTriple(t, n, S, Q) ==
    /\ Len(t) = 3
    /\ \A i \in 1..3 : t[i] % Grain = 0
    /\ IsRounded(t[1] \div Grain, 1, n, S, Q)
    /\ IsRounded(t[2] \div Grain, 0, n, S, Q)
    /\ IsRounded(t[3] \div Grain, -1, n, S, Q)

\* The values of the pool for a total, a dimension or a problem, squared when
\* sq is TRUE, and 0 in place of the value of a participant who has none.
RECURSIVE SumOfScores(_, _, _, _)
SumOfScores(entries, key, id, field) ==
    IF entries = <<>> THEN 0
    ELSE (IF Head(entries)[key] = id THEN Head(entries)[field] ELSE 0)
         + SumOfScores(Tail(entries), key, id, field)

Squared(entries, field) ==
    [i \in DOMAIN entries |-> [entries[i] EXCEPT ![field] = @ * @]]

\* All ability scores, and all problem scores, of the participants of the pool.
PooledAbilityScores == Flatten([i \in DOMAIN pool.scores |-> pool.scores[i].ability_scores])
PooledProblemScores ==
    Flatten([i \in DOMAIN pool.scores |->
        [j \in DOMAIN pool.scores[i].problem_scores |->
            [problem_id      |-> pool.scores[i].problem_scores[j].problem_id,
             objective_score |-> pool.scores[i].problem_scores[j].objective_score]]])
PooledTotals ==
    [i \in DOMAIN pool.scores |->
        [all |-> "all",
         total_problem |-> pool.scores[i].totals.total_problem_score,
         total_ability |-> pool.scores[i].totals.total_ability_score,
         final_total   |-> pool.scores[i].totals.final_total_score]]

\* The number of entries with the id.
CountOf(entries, key, id) == Cardinality({ i \in DOMAIN entries : entries[i][key] = id })

\* t is the standard-deviation triple of the entries' values for the id.
IsStdDevTripleOf(t, entries, key, id, field) ==
    IsStdDevTriple(t, CountOf(entries, key, id),
                   SumOfScores(entries, key, id, field),
                   SumOfScores(Squared(entries, field), key, id, field))

\* C28: in a computed curve, the triple of every total, dimension and problem
\* that the pool has values for is (mu + sigma, mu, mu - sigma) of those
\* values, mu their arithmetic mean and sigma their population standard
\* deviation, each clamped to [0,1] and then rounded to three decimals.
C28_StdDevThresholds ==
    (called = "computeCurve" /\ curve # NoValue /\ Len(pool.scores) > 0)
    => /\ \A tot \in {"total_problem", "total_ability", "final_total"} :
             IsStdDevTripleOf(curve.totals[tot].thresholds, PooledTotals, "all", "all", tot)
       /\ \A k \in DOMAIN curve.ability_curves :
             CountOf(PooledAbilityScores, "dimension_id", curve.ability_curves[k].dimension_id) > 0
             => IsStdDevTripleOf(curve.ability_curves[k].thresholds, PooledAbilityScores,
                                 "dimension_id", curve.ability_curves[k].dimension_id, "score")
       /\ \A k \in DOMAIN curve.problem_curves :
             CountOf(PooledProblemScores, "problem_id", curve.problem_curves[k].problem_id) > 0
             => IsStdDevTripleOf(curve.problem_curves[k].thresholds, PooledProblemScores,
                                 "problem_id", curve.problem_curves[k].problem_id,
                                 "objective_score")

\* Three participants with total_problem_score 1, 1, 0: mu = 0.667 and
\* sigma = 0.471 to three decimals, mu + sigma clamped to 1, mu - sigma = 0.195.
C28_Witness ==
    /\ called = "computeCurve" /\ curve # NoValue /\ Len(pool.scores) = 3
    /\ { i \in 1..3 : pool.scores[i].totals.total_problem_score = One } = {1, 2}
    /\ pool.scores[3].totals.total_problem_score = 0
    /\ curve.totals.total_problem.thresholds = <<Milli(1000), Milli(667), Milli(195)>>

\* x is sqrt(a * b) clamped into [0,1], for scores a and b from 0 to 1 (whose
\* geometric mean is from 0 to 1 as well): x is a square root of that product,
\* or a fraction whose square is the product.
IsGeometricMean(x, a, b) ==
    IF "radicand" \in DOMAIN x THEN x.radicand = Times(Unit(a), Unit(b))
    ELSE Times(Unit(x), Unit(x)) = Times(Unit(a), Unit(b))

\* C29: whichever computation derived the totals, the totals getter or
\* computeScoreTotals, final_total_score is the geometric mean
\* sqrt(total_problem_score * total_ability_score), clamped into [0,1].
C29_FinalTotalIsGeometricMean ==
    (called \in {"totals", "computeScoreTotals"} /\ derivedTotals # NoValue)
    => IsGeometricMean(derivedTotals.final_total_score,
                       derivedTotals.total_problem_score,
                       derivedTotals.total_ability_score)

\* The totals getter alone derives the geometric mean.
TotalsGetterIsGeometricMean ==
    (called = "totals" /\ derivedTotals # NoValue)
    => IsGeometricMean(derivedTotals.final_total_score,
                       derivedTotals.total_problem_score,
                       derivedTotals.total_ability_score)

\* The getter has derived totals of which the two means differ.
TotalsGetterWitness ==
    /\ called = "totals" /\ derivedTotals # NoValue
    /\ derivedTotals.total_problem_score # derivedTotals.total_ability_score
    /\ derivedTotals.total_problem_score.num > 0
    /\ derivedTotals.total_ability_score.num > 0

\* How good a grade is: A > B > C > D.
GradeOrder(g) == CASE g = "A" -> 4 [] g = "B" -> 3 [] g = "C" -> 2 [] g = "D" -> 1

\* C30: for a fixed triple, getGrade is monotone in the score: the grade
\* returned for a score is at least as good as the grade of every score that
\* is not higher, and at most as good as the grade of every score that is not
\* lower.
C30_GradeMonotoneInScore ==
    (called = "getGrade" /\ probe.grade # "none")
    => \A other \in ScoreValues :
          /\ other <= probe.score
             => GradeOrder(getGrade(other, probe.thresholds)) <= GradeOrder(probe.grade)
          /\ other >= probe.score
             => GradeOrder(getGrade(other, probe.thresholds)) >= GradeOrder(probe.grade)

\* A score graded B, between a lower score graded D and a higher one graded A.
C30_Witness ==
    /\ called = "getGrade" /\ probe.grade = "B"
    /\ \E low \in ScoreValues, high \in ScoreValues :
          /\ low < probe.score /\ probe.score < high
          /\ getGrade(low, probe.thresholds) = "D"
          /\ getGrade(high, probe.thresholds) = "A"

====
